---- MODULE Spec2Model ----
(***************************************************************************)
(* Verification model of the AI-mention / AI-requirement pipeline:         *)
(*   - the batch lifecycle (submit / wait / fetch / integrate) of          *)
(*     validate_ai_requirements_batch.py and validate_ai_mentions_batch.py *)
(*   - the merge performed by integrate                                    *)
(*   - label normalisation and result-line parsing in fetch                *)
(*   - the digest cache of validate_ai_mentions_with_gpt.py                *)
(* Each part has its own specification over its own variables; the other   *)
(* variables are held fixed by that specification.                         *)
(***************************************************************************)
EXTENDS Integers, Sequences, FiniteSets, TLC

VARIABLES
    \* ---- batch lifecycle (both batch scripts) ----
    script,         \* "requirements" | "mentions": which script is being run
    jsonl,          \* the batch input JSONL exists on disk
    manifest,       \* manifest file: [exists, batch_id, input_file_id, status]
    batchStatus,    \* API side: batch id -> status ("none" = not created)
    outputReady,    \* API side: batch id -> output_file_id is set
    nextBatch,      \* API side: id the next created batch gets
    nextFile,       \* API side: id the next uploaded file gets
    resultsFile,    \* aggregated/validated results file: batch id it was last written from (0 = never)
    mode,           \* mode of the current run ("none" between runs)
    argBatchId,     \* --batch-id of the current run (0 = not given)
    pc,             \* position of the current run in main()
    bid,            \* batch id the run resolved (0 = none)
    out_id,         \* local out_id of fetch: an output_file_id was seen
    attempts,       \* local attempts counter of fetch's retry loop (0 once the loop is left)
    nLines,         \* number of lines of the downloaded output
    parsed,         \* number of lines parsed so far
    \* history of the current run
    queried,        \* set of batch ids whose status was queried
    sawCompleted,   \* some status query returned "completed"
    requeried,      \* fetch re-queried the batch for its output_file_id
    termSeen,       \* terminal failure status a status query returned ("" = none)
    fetchSeen,      \* status fetch's own retrieve returned ("" = fetch not reached)
    downloaded,     \* the output file content was downloaded
    wroteResults,   \* the results file was written
    abortMsg,       \* [msg, status] of the SystemExit ("" = none)
    manifestAtStart,\* manifest content when the run started
    resultsAtStart, \* results file content when the run started
    \* ---- integrate (validate_ai_requirements_batch.py) ----
    population,     \* --population: "matches" | "all"
    matchIdx,       \* keyword-match index: ordered <<year, <<ad ids>>>> entries
    results,        \* records returned by fetch: [ad_id, year, ai_requirement]
    resFile,        \* aggregated results file: [state, data], data an ordered year -> ad -> entry dict
    lastOp,         \* latest operation: "none" | "fetch" | "integrate" | "killed"
    lastRange,      \* <<start_year, end_year>> of the latest integrate run
    repeated,       \* the latest integrate run repeated the one before it (same results, same arguments)
    \* ---- label normalisation in fetch ----
    arIn,           \* parsed.get("ai_requirement"): a JSON value [t, b, s]
    arOut,          \* the ai_requirement fetch stores (characters)
    normalized,     \* the normalisation ran
    \* ---- parsing of the downloaded batch output in fetch ----
    outLines,       \* lines of the downloaded output
    parsePos,       \* number of lines fetch has gone through
    records,        \* the list `results` fetch builds
    parseRaised,    \* fetch raised while handling line parsePos
    \* ---- validate_ai_mentions_with_gpt: the digest cache ----
    matches,        \* the match index, flattened: <<[y, keyword, text], ...>>
    cacheFile,      \* CACHE_PATH on disk (the digests it holds)
    gptPc,          \* "idle" | "running"
    cache,          \* the dict `cache` of the run (its keys)
    tasks,          \* the list `tasks` of the run
    taskPos,        \* the loop index i
    batchSize,      \* args.batch_size
    gptRange,       \* <<args.start_year, args.end_year>>, 0 for None
    validated,      \* OUT_PATH: per match in range, whether a classification was found
    sentRun,        \* history: digests sent to the LLM in this run, in order
    loadedCache,    \* history: the cache as loaded at the start of this run
    everCompleted,  \* history: digests sent in a batch that completed, over all runs
    resent,         \* history: a digest of everCompleted was sent again
    abortedBefore,  \* history: some run was aborted by an API error
    \* ---- review application (streamlit_review/app.py) ----
    annFile,        \* annotations.json
    tmpFile,        \* the temporary file of the save under way or just crashed: "none" | "empty" | "partial" | "complete" | "durable"
    runPc,          \* "down" | "idle" | "rerun" | a step of _save_annotations
    annMem,         \* the dict `annotations` being saved
    navAfter,       \* the button pressed in this run: "none" | "prev" | "next"
    sessIdx,        \* st.session_state.idx as a row number of the sample, 0 when unset
    onlyNonAnnotated, \* the checkbox "Filter: only non-annotated postings"
    shown,          \* the row whose widgets were rendered by the latest run, 0 for none
    wLabel,         \* the radio "Your label" of the row shown
    wNote,          \* the text input "Reason (optional)" of the row shown
    wFlag,          \* the checkbox "Flag" of the row shown
    lastEdit,       \* history: the row the reviewer just edited and what its widgets then said
    \* ---- keyword detection (detect_ai_mentions_fulltext.py) ----
    scanText,       \* adve_text_adve of the ad being scanned
    scanResults,    \* the list find_matches_with_context returns
    scanned,        \* the ad has been scanned
    \* ---- AI-requirement lookup (create_final_dataset.py) ----
    lkId,           \* ad_id passed to lookup_ai_requirement
    lkMap,          \* ai_map passed to lookup_ai_requirement
    lkKeys,         \* the keys tested against ai_map, in order
    lkResult,       \* the value returned
    lkDone,         \* the call has returned
    \* ---- final dataset assembly (create_final_dataset.py main) ----
    baseFile,       \* the lines of the base .jsonl.bz2 file
    exposures,      \* load_exposures(): ad id -> exposure row
    ai_req,         \* load_ai_requirements(): ad id -> label
    finPos,         \* lines of baseFile read so far
    finRows,        \* rows
    finPc,          \* "reading", "done", "norows" (SystemExit), "aborted"
    \* ---- occupation exposure lookup (build_exposure_assets.py) ----
    socExposure,    \* soc_exposure: SOC code -> AIOE (a number or NaN)
    crosswalk,      \* the rows of the SOC-ISCO crosswalk
    occupation_df,  \* ISCO code -> summary, from build_occupation_lookup
    occ_missing,    \* ISCO code -> SOC codes lacking exposure
    occ_payload,    \* isco_aioe.json, from write_mapping_files
    gapsFile,       \* lookup_gaps.occupation_soc_missing_exposure of exposure_gaps.json
    occPc,          \* "start", "built", "mapped", "done"
    \* ---- NAICS exposure sheet (preprocess_naics_exposure.py) ----
    naicsSheet,     \* df: the rows of the AIIE sheet after dropna
    naicsCrosswalk, \* the NAICS column of the NAICS-ISIC crosswalk
    naicsPos,       \* rows of df handled so far
    naicsRows,      \* rows
    naicsOut,       \* the data frame returned
    naicsPc,        \* "rows", "done", "aborted"
    \* ---- keyword test runner (tests/run_keyword_tests.py) ----
    cases,          \* cases.json: [positives, negatives]
    pos,            \* positives_out
    neg,            \* negatives_out
    exitCode,       \* what main returns
    testPc,         \* "positives", "negatives", "summary", "exited"
    \* ---- batch input builders (build mode of both batch scripts) ----
    builder,        \* "mentions" | "matches" | "all": the builder and its population
    inMatches,      \* the match index: entries [y, ad, keyword, text] in file order
    inTexts,        \* text files: year -> NoFile or the set of its lines [ad, txt]
    inLimit,        \* --limit (None when not given)
    inRange,        \* <<start_year, end_year>>, 0 for None
    inPos,          \* items of the work list consumed so far
    inSeen,         \* iter_items: digests already yielded
    inCount,        \* iter_items: count / build_input: written
    inLines,        \* custom_id of each request line, in order
    inPc,           \* "loop" | "done": the input file is complete
    \* ---- build_final_annotations: main ----
    pools,          \* (truth, pred, bucket) -> number of candidate ads
    alloc,          \* (truth, pred, bucket) -> ads to take
    allocNext,      \* index in CONF_TARGET of the next cell to allocate
    balIter,        \* iterations of the balancing loop so far
    samplePc,       \* "alloc" | "balance" | "validate" | "written" | "aborted"
    selected,       \* the ads of final_annotations.json ({} while not written)
    \* ---- build_final_annotations2: main ----
    pools2,         \* (truth, pred, bucket) -> number of candidate ads
    shuffle2,       \* what random.shuffle does in this run
    keyPos,         \* entries of TARGETS handled so far
    selected2,      \* the dict `selected`, as the set of its ads
    out2,           \* the ads of final_annotations2.json ({} while not written)
    pc2             \* "select" | "written" | "aborted"

batchVars == <<script, jsonl, manifest, batchStatus, outputReady, nextBatch, nextFile,
               resultsFile, mode, argBatchId, pc, bid, out_id, attempts, nLines, parsed,
               queried, sawCompleted, requeried, termSeen, fetchSeen, downloaded,
               wroteResults, abortMsg, manifestAtStart, resultsAtStart>>

intVars == <<population, matchIdx, results, resFile, lastOp, lastRange, repeated>>

labelVars == <<arIn, arOut, normalized>>

parseVars == <<outLines, parsePos, records, parseRaised>>

gptVars == <<matches, cacheFile, gptPc, cache, tasks, taskPos, batchSize, gptRange,
             validated, sentRun, loadedCache, everCompleted, resent, abortedBefore>>

reviewVars == <<annFile, tmpFile, runPc, annMem, navAfter, sessIdx, onlyNonAnnotated, shown, wLabel, wNote, wFlag, lastEdit>>

scanVars == <<scanText, scanResults, scanned>>

lookupVars == <<lkId, lkMap, lkKeys, lkResult, lkDone>>

finalVars == <<baseFile, exposures, ai_req, finPos, finRows, finPc>>

occVars == <<socExposure, crosswalk, occupation_df, occ_missing, occ_payload, gapsFile, occPc>>

naicsVars == <<naicsSheet, naicsCrosswalk, naicsPos, naicsRows, naicsOut, naicsPc>>

testsVars == <<cases, pos, neg, exitCode, testPc>>

inputVars == <<builder, inMatches, inTexts, inLimit, inRange, inPos, inSeen, inCount, inLines, inPc>>

sampleVars == <<pools, alloc, allocNext, balIter, samplePc, selected>>

targetsVars == <<pools2, shuffle2, keyPos, selected2, out2, pc2>>

vars == <<batchVars, intVars, labelVars, parseVars, gptVars, reviewVars, scanVars, lookupVars, finalVars, occVars, naicsVars, testsVars, inputVars, sampleVars, targetsVars>>

(***************************************************************************)
(* Bounds of the model.                                                    *)
(***************************************************************************)
\* number of batches the API can be asked to create in one behaviour
MaxBatches == 2
\* number of lines of a downloaded batch output
MaxLines == 2
\* number of records in the list fetch returns
MaxResults == 2
\* length of the label strings enumerated over LabelAlphabet
MaxLabelLen == 3
\* matches in the match index read by validate_ai_mentions_with_gpt
MaxMatches == 3
\* candidates a pool has beyond what its cell needs
MaxSpare == 1
\* entries of the match index given to a builder
MaxIndex == 2
\* positive cases, and negative cases, of cases.json
MaxCases == 1
\* rows of the AIIE sheet
MaxSheet == 2
\* SOC codes of the crosswalk
MaxSoc == 3
\* lines of the base file
MaxBase == 2
\* dash-separated segments of an ad id
MaxSegs == 3
\* entries of ai_map
MaxMapKeys == 2
\* abbreviation occurrences concatenated into one scanned text
MaxPieces == 1
\* rows of the review sample
MaxSample == 3

(***************************************************************************)
(* Batch lifecycle                                                         *)
(***************************************************************************)
\* fetch's bound on re-queries for a lagging output_file_id (requirements script)
MaxAttempts == 200

Scripts == {"requirements", "mentions"}
BatchIds == 1..MaxBatches
\* statuses the batch API reports
PendingStatuses == {"validating", "in_progress"}
FailStatuses == {"failed", "expired", "canceled"}
Statuses == PendingStatuses \cup {"completed"} \cup FailStatuses

NoManifest == [exists |-> FALSE, batch_id |-> 0, input_file_id |-> 0, status |-> ""]
\* a manifest file that holds JSON without a batch_id
EmptyManifest == [exists |-> TRUE, batch_id |-> 0, input_file_id |-> 0, status |-> ""]
NoAbort == [msg |-> "", status |-> ""]

\* info dict written by submit / submit_batch
ManifestInfoSwapped(up, batch, status) ==
    [exists |-> TRUE, batch_id |-> up, input_file_id |-> batch, status |-> status]
ManifestInfo(up, batch, status) ==
    [exists |-> TRUE, batch_id |-> batch, input_file_id |-> up, status |-> status]

\* wait loop: `if b.status == "completed": break`
WaitCompletedAny(s) == s \notin PendingStatuses
WaitCompleted(s) == s = "completed"

\* a test that knows "failed" alone
WaitFailedOnly(s) == s = "failed"
\* wait loop: `if b.status in {"failed", "expired", "canceled"}: raise SystemExit`
WaitFailed(s) == s \in FailStatuses

\* fetch: `if b.status != "completed": raise SystemExit("Batch not completed yet")`
FetchStatusOkLoose(s) == s # "in_progress"
FetchStatusOk(s) == s = "completed"

\* number of re-queries fetch makes for a missing output_file_id:
\* `while not out_id and attempts < 200` in the requirements script,
\* a single `if not out_id: raise` in the mentions script
RetryLimit(s) == IF s = "requirements" THEN MaxAttempts ELSE 0

\* a new process run starts: locals and the run's history are fresh
RunReset ==
    /\ queried' = {}
    /\ sawCompleted' = FALSE
    /\ requeried' = FALSE
    /\ termSeen' = ""
    /\ fetchSeen' = ""
    /\ downloaded' = FALSE
    /\ wroteResults' = FALSE
    /\ manifestAtStart' = manifest
    /\ resultsAtStart' = resultsFile
    /\ out_id' = FALSE
    /\ attempts' = 0
    /\ nLines' = 0
    /\ parsed' = 0

\* the previous run (if any) has ended
RunOver == pc \in {"idle", "done", "aborted"}

apiVars == <<batchStatus, outputReady, nextBatch, nextFile>>
localVars == <<bid, out_id, attempts, nLines, parsed>>
histVars == <<queried, sawCompleted, requeried, termSeen, fetchSeen, downloaded, wroteResults, abortMsg,
              manifestAtStart, resultsAtStart>>

InitBatch ==
    /\ script \in Scripts
    /\ jsonl = FALSE
    /\ manifest \in {NoManifest, EmptyManifest}
    /\ batchStatus = [b \in BatchIds |-> "none"]
    /\ outputReady = [b \in BatchIds |-> FALSE]
    /\ nextBatch = 1
    /\ nextFile = 1
    /\ resultsFile = 0
    /\ mode = "none"
    /\ argBatchId = 0
    /\ pc = "idle"
    /\ bid = 0
    /\ out_id = FALSE
    /\ attempts = 0
    /\ nLines = 0
    /\ parsed = 0
    /\ queried = {}
    /\ sawCompleted = FALSE
    /\ requeried = FALSE
    /\ termSeen = ""
    /\ fetchSeen = ""
    /\ downloaded = FALSE
    /\ wroteResults = FALSE
    /\ abortMsg = NoAbort
    /\ manifestAtStart = manifest
    /\ resultsAtStart = 0

\* state of the batch variables under the other specifications
BatchQuiet ==
    /\ InitBatch
    /\ script = "requirements"
    /\ manifest = NoManifest

\* main, mode build: writes the batch input JSONL
Build ==
    /\ RunOver
    /\ mode' = "build"
    /\ argBatchId' = 0
    /\ RunReset
    /\ jsonl' = TRUE
    /\ bid' = 0
    /\ abortMsg' = NoAbort
    /\ pc' = "done"
    /\ UNCHANGED <<script, manifest, resultsFile, apiVars>>

\* main, mode submit, input JSONL missing: SystemExit before any API call
SubmitNoInput ==
    /\ RunOver
    /\ ~jsonl
    /\ mode' = "submit"
    /\ argBatchId' = 0
    /\ RunReset
    /\ bid' = 0
    /\ pc' = "aborted"
    /\ abortMsg' = [msg |-> "Missing input JSONL", status |-> ""]
    /\ UNCHANGED <<script, jsonl, manifest, resultsFile, apiVars>>

\* submit: upload, create the batch, write the manifest
SubmitOk ==
    /\ RunOver
    /\ jsonl
    /\ nextBatch <= MaxBatches
    /\ mode' = "submit"
    /\ argBatchId' = 0
    /\ RunReset
    /\ bid' = 0
    /\ abortMsg' = NoAbort
    /\ nextFile' = nextFile + 1
    /\ nextBatch' = nextBatch + 1
    /\ batchStatus' = [batchStatus EXCEPT ![nextBatch] = "validating"]
    /\ manifest' = ManifestInfo(nextFile, nextBatch, "validating")
    /\ pc' = "done"
    /\ UNCHANGED <<script, jsonl, resultsFile, outputReady>>

\* submit: client.files.create raises
SubmitUploadFails ==
    /\ RunOver
    /\ jsonl
    /\ mode' = "submit"
    /\ argBatchId' = 0
    /\ RunReset
    /\ bid' = 0
    /\ pc' = "aborted"
    /\ abortMsg' = [msg |-> "api error", status |-> ""]
    /\ UNCHANGED <<script, jsonl, manifest, resultsFile, apiVars>>

\* submit: the upload succeeds, client.batches.create raises
SubmitCreateFails ==
    /\ RunOver
    /\ jsonl
    /\ nextFile <= MaxBatches + 1
    /\ mode' = "submit"
    /\ argBatchId' = 0
    /\ RunReset
    /\ bid' = 0
    /\ nextFile' = nextFile + 1
    /\ pc' = "aborted"
    /\ abortMsg' = [msg |-> "api error", status |-> ""]
    /\ UNCHANGED <<script, jsonl, manifest, resultsFile, batchStatus, outputReady, nextBatch>>

\* wait / fetch: determine the batch id (--batch-id, else the manifest)
StartRun(m, a) ==
    /\ RunOver
    /\ mode' = m
    /\ argBatchId' = a
    /\ RunReset
    /\ IF a # 0
         THEN /\ bid' = a
              /\ pc' = IF m = "wait" THEN "wait_loop" ELSE "fetch_retrieve"
              /\ abortMsg' = NoAbort
         ELSE IF ~manifest.exists
           THEN /\ bid' = 0
                /\ pc' = "aborted"
                /\ abortMsg' = [msg |-> "Provide --batch-id or ensure manifest exists", status |-> ""]
           ELSE IF manifest.batch_id = 0
             THEN /\ bid' = 0
                  /\ pc' = "aborted"
                  /\ abortMsg' = [msg |-> "batch_id missing in manifest", status |-> ""]
             ELSE /\ bid' = manifest.batch_id
                  /\ pc' = IF m = "wait" THEN "wait_loop" ELSE "fetch_retrieve"
                  /\ abortMsg' = NoAbort
    /\ UNCHANGED <<script, jsonl, manifest, resultsFile, apiVars>>

\* client.batches.retrieve(bid) raises (no such batch)
RetrieveRaises ==
    /\ pc \in {"wait_loop", "fetch_retrieve"}
    /\ batchStatus[bid] = "none"
    /\ pc' = "aborted"
    /\ abortMsg' = [msg |-> "api error", status |-> ""]
    /\ UNCHANGED <<script, jsonl, manifest, resultsFile, apiVars, mode, argBatchId,
                   localVars, queried, sawCompleted, requeried, termSeen, fetchSeen, downloaded,
                   wroteResults, manifestAtStart, resultsAtStart>>

\* one iteration of the wait loop: retrieve, test the status, sleep
WaitPoll ==
    /\ pc = "wait_loop"
    /\ batchStatus[bid] # "none"
    /\ LET s == batchStatus[bid] IN
        /\ queried' = queried \cup {bid}
        /\ sawCompleted' = (sawCompleted \/ s = "completed")
        /\ termSeen' = IF s \in FailStatuses THEN s ELSE termSeen
        /\ IF WaitCompleted(s)
             THEN /\ pc' = "fetch_retrieve"
                  /\ abortMsg' = abortMsg
             ELSE IF WaitFailed(s)
               THEN /\ pc' = "aborted"
                    /\ abortMsg' = [msg |-> "Batch ended with status=", status |-> s]
               ELSE /\ pc' = "wait_loop"
                    /\ abortMsg' = abortMsg
    /\ UNCHANGED <<script, jsonl, manifest, resultsFile, apiVars, mode, argBatchId,
                   localVars, requeried, fetchSeen, downloaded, wroteResults,
                   manifestAtStart, resultsAtStart>>

\* fetch: retrieve the batch and require status completed
FetchRetrieve ==
    /\ pc = "fetch_retrieve"
    /\ batchStatus[bid] # "none"
    /\ LET s == batchStatus[bid] IN
        /\ queried' = queried \cup {bid}
        /\ sawCompleted' = (sawCompleted \/ s = "completed")
        /\ termSeen' = IF s \in FailStatuses THEN s ELSE termSeen
        /\ fetchSeen' = s
        /\ IF ~FetchStatusOk(s)
             THEN /\ pc' = "aborted"
                  /\ abortMsg' = [msg |-> "Batch not completed yet", status |-> ""]
                  /\ out_id' = out_id
             ELSE /\ pc' = "fetch_outid"
                  /\ abortMsg' = abortMsg
                  /\ out_id' = outputReady[bid]
    /\ UNCHANGED <<script, jsonl, manifest, resultsFile, apiVars, mode, argBatchId,
                   bid, attempts, nLines, parsed, requeried, downloaded, wroteResults,
                   manifestAtStart, resultsAtStart>>

\* fetch: one iteration of `while not out_id and attempts < 200`
FetchRequery ==
    /\ pc = "fetch_outid"
    /\ ~out_id
    /\ attempts < RetryLimit(script)
    /\ out_id' = outputReady[bid]
    /\ attempts' = attempts + 1
    /\ requeried' = TRUE
    /\ UNCHANGED <<script, jsonl, manifest, resultsFile, apiVars, mode, argBatchId, pc,
                   bid, nLines, parsed, queried, sawCompleted, termSeen, fetchSeen, downloaded,
                   wroteResults, abortMsg, manifestAtStart, resultsAtStart>>

\* fetch: after the retry loop, `if not out_id: raise SystemExit`
FetchNoOutput ==
    /\ pc = "fetch_outid"
    /\ ~(~out_id /\ attempts < RetryLimit(script))
    /\ ~out_id
    /\ pc' = "aborted"
    /\ abortMsg' = [msg |-> "No output_file_id", status |-> ""]
    /\ attempts' = 0
    /\ UNCHANGED <<script, jsonl, manifest, resultsFile, apiVars, mode, argBatchId,
                   bid, out_id, nLines, parsed, queried, sawCompleted, requeried, termSeen, fetchSeen, downloaded,
                   wroteResults, manifestAtStart, resultsAtStart>>

\* fetch: client.files.content(out_id).read()
FetchDownload ==
    /\ pc = "fetch_outid"
    /\ out_id
    /\ downloaded' = TRUE
    /\ nLines' \in 0..MaxLines
    /\ parsed' = 0
    /\ attempts' = 0
    /\ pc' = "parse"
    /\ UNCHANGED <<script, jsonl, manifest, resultsFile, apiVars, mode, argBatchId,
                   bid, out_id, queried, sawCompleted, requeried, termSeen, fetchSeen, wroteResults,
                   abortMsg, manifestAtStart, resultsAtStart>>

\* fetch's loop over the output lines is left when every line was parsed
ParseDoneEarly(p, n) == p >= 1 \/ n = 0
ParseDone(p, n) == p = n

\* fetch: one line of the output parsed into a record
FetchParseLine ==
    /\ pc = "parse"
    /\ parsed < nLines
    /\ parsed' = parsed + 1
    /\ UNCHANGED <<script, jsonl, manifest, resultsFile, apiVars, mode, argBatchId, pc,
                   bid, out_id, attempts, nLines, histVars>>

\* fetch: parsing a line raises (json.loads(line) on a malformed line)
FetchParseRaises ==
    /\ pc = "parse"
    /\ parsed < nLines
    /\ pc' = "aborted"
    /\ abortMsg' = [msg |-> "parse error", status |-> ""]
    /\ UNCHANGED <<script, jsonl, manifest, resultsFile, apiVars, mode, argBatchId,
                   localVars, queried, sawCompleted, requeried, termSeen, fetchSeen, downloaded,
                   wroteResults, manifestAtStart, resultsAtStart>>

\* integrate / integrate_validated: the results file is written
IntegrateWrite ==
    /\ pc = "parse"
    /\ ParseDone(parsed, nLines)
    /\ wroteResults' = TRUE
    /\ resultsFile' = bid
    /\ pc' = "done"
    /\ UNCHANGED <<script, jsonl, manifest, apiVars, mode, argBatchId, localVars,
                   queried, sawCompleted, requeried, termSeen, fetchSeen, downloaded, abortMsg,
                   manifestAtStart, resultsAtStart>>

\* the batch API moves a batch forward
BatchAdvance(b, s) ==
    /\ \/ batchStatus[b] = "validating" /\ s \in {"in_progress"} \cup FailStatuses
       \/ batchStatus[b] = "in_progress" /\ s \in {"completed"} \cup FailStatuses
    /\ batchStatus' = [batchStatus EXCEPT ![b] = s]
    /\ UNCHANGED <<script, jsonl, manifest, resultsFile, outputReady, nextBatch, nextFile,
                   mode, argBatchId, pc, localVars, histVars>>

\* the batch API sets output_file_id, possibly after status became completed
OutputAppears(b) ==
    /\ batchStatus[b] = "completed"
    /\ ~outputReady[b]
    /\ outputReady' = [outputReady EXCEPT ![b] = TRUE]
    /\ UNCHANGED <<script, jsonl, manifest, resultsFile, batchStatus, nextBatch, nextFile,
                   mode, argBatchId, pc, localVars, histVars>>

\* variables the batch lifecycle leaves alone
nonBatchVars == <<intVars, labelVars, parseVars, gptVars, reviewVars, scanVars, lookupVars, finalVars, occVars, naicsVars, testsVars, inputVars, sampleVars, targetsVars>>

NextBatch ==
    \/ Build /\ UNCHANGED nonBatchVars
    \/ SubmitNoInput /\ UNCHANGED nonBatchVars
    \/ SubmitOk /\ UNCHANGED nonBatchVars
    \/ SubmitUploadFails /\ UNCHANGED nonBatchVars
    \/ SubmitCreateFails /\ UNCHANGED nonBatchVars
    \/ \E m \in {"wait", "fetch"} : \E a \in 0..MaxBatches :
            StartRun(m, a) /\ UNCHANGED nonBatchVars
    \/ RetrieveRaises /\ UNCHANGED nonBatchVars
    \/ WaitPoll /\ UNCHANGED nonBatchVars
    \/ FetchRetrieve /\ UNCHANGED nonBatchVars
    \/ FetchRequery /\ UNCHANGED nonBatchVars
    \/ FetchNoOutput /\ UNCHANGED nonBatchVars
    \/ FetchDownload /\ UNCHANGED nonBatchVars
    \/ FetchParseLine /\ UNCHANGED nonBatchVars
    \/ FetchParseRaises /\ UNCHANGED nonBatchVars
    \/ IntegrateWrite /\ UNCHANGED nonBatchVars
    \/ \E b \in BatchIds : \E s \in Statuses :
            BatchAdvance(b, s) /\ UNCHANGED nonBatchVars
    \/ \E b \in BatchIds : OutputAppears(b) /\ UNCHANGED nonBatchVars

(***************************************************************************)
(* Claims about the batch lifecycle (checked under SpecBatch)              *)
(***************************************************************************)
FetchPcs == {"fetch_retrieve", "fetch_outid", "parse"}

\* C1: in wait mode fetch and integrate run only after a status query
\* returned "completed"; once a status query returned failed, expired or
\* canceled the run is aborted with that status in its message, nothing was
\* downloaded and the results file is the one the run started with.
C1_WaitGatesFetch ==
    mode = "wait" =>
        /\ ((pc \in FetchPcs \/ downloaded \/ wroteResults) => sawCompleted)
        /\ (termSeen # "" =>
                /\ pc = "aborted"
                /\ abortMsg = [msg |-> "Batch ended with status=", status |-> termSeen]
                /\ ~downloaded
                /\ ~wroteResults
                /\ resultsFile = resultsAtStart)

\* a wait run aborted on an expired batch, with a results file that an
\* earlier run wrote after a completed batch
C1_Witness ==
    /\ mode = "wait"
    /\ pc = "aborted"
    /\ termSeen = "expired"
    /\ resultsFile # 0

\* C2: when fetch's status query returns anything but "completed", fetch
\* aborts with nothing downloaded and the results file untouched; a download
\* happens only for a completed batch, and the results file is written only
\* after every downloaded line was parsed.
C2_FetchRequiresCompleted ==
    /\ (fetchSeen \notin {"", "completed"} =>
            /\ pc = "aborted"
            /\ ~downloaded
            /\ ~wroteResults
            /\ resultsFile = resultsAtStart)
    /\ (downloaded => fetchSeen = "completed")
    /\ (wroteResults => downloaded /\ parsed = nLines)

\* a fetch run that found its batch failed and aborted, the results file
\* still being the one written from an earlier completed batch
C2_Witness ==
    /\ mode = "fetch"
    /\ fetchSeen = "failed"
    /\ pc = "aborted"
    /\ resultsFile # 0
    /\ resultsFile # bid

\* C6: after a successful submit the manifest names the batch just created
\* with its input file and status; a wait/fetch run without --batch-id
\* queries only the manifest's batch, which is the batch of the latest
\* successful submit, and queries nothing (aborting) when the manifest is
\* missing or has no batch_id; a failed submit leaves the manifest as it was.
C6_ManifestResumes ==
    /\ (mode = "submit" /\ pc = "done" =>
            /\ manifest = [exists |-> TRUE, batch_id |-> nextBatch - 1,
                           input_file_id |-> nextFile - 1, status |-> "validating"]
            /\ batchStatus[manifest.batch_id] # "none")
    /\ (mode \in {"wait", "fetch"} /\ argBatchId = 0 =>
            IF manifest.exists /\ manifest.batch_id # 0
              THEN /\ queried \subseteq {manifest.batch_id}
                   /\ manifest.batch_id = nextBatch - 1
              ELSE /\ queried = {}
                   /\ pc = "aborted")
    /\ (mode = "submit" /\ pc = "aborted" => manifest = manifestAtStart)

\* a wait run without --batch-id polling the second batch, after one submit
\* had failed at batch creation (file ids and batch ids differ)
C6_Witness ==
    /\ mode = "wait"
    /\ argBatchId = 0
    /\ queried = {2}
    /\ nextFile > nextBatch

\* C7: a fetch that fails for lack of an output_file_id has first re-queried
\* the batch (stated for both scripts)
C7_RetriesBeforeFailing ==
    abortMsg.msg = "No output_file_id" => requeried

\* the retry loop is bounded and nothing is downloaded without an
\* output_file_id (holds for both scripts)
C7_BoundedNoBlindDownload ==
    /\ attempts <= RetryLimit(script)
    /\ (downloaded => outputReady[bid])

(***************************************************************************)
(* integrate: merging fetched records into the aggregated results file     *)
(***************************************************************************)
\* years, ad ids and labels of the model (0 stands for a year of None,
\* "" for an empty ad id)
Years == {1, 2}
Ads == {"a", "b"}
Labels == {"True", "False"}

\* Python dicts keep insertion order and json.dumps writes in that order:
\* a dict is a sequence of <<key, value>> pairs with distinct keys
Has(d, k) == \E i \in 1..Len(d) : d[i][1] = k
Get(d, k, default) ==
    IF Has(d, k) THEN d[CHOOSE i \in 1..Len(d) : d[i][1] = k][2] ELSE default
\* d[k] = v that adds a second pair for a key already present
PutAppend(d, k, v) == Append(d, <<k, v>>)
\* d[k] = v: replaces the value in place, or adds the key at the end
Put(d, k, v) ==
    IF Has(d, k)
      THEN [i \in 1..Len(d) |-> IF d[i][1] = k THEN <<k, v>> ELSE d[i]]
      ELSE Append(d, <<k, v>>)

AbsentFile == [state |-> "absent", data |-> <<>>]
\* a file left by a write that did not finish: a strict prefix of the JSON text
TruncatedFile == [state |-> "truncated", data |-> <<>>]
OkFile(d) == [state |-> "ok", data |-> d]

\* integrate starting from an empty dict whatever the file holds
LoadResultsFresh(f) == <<>>
\* integrate: `out = json.loads(...)` if the file exists and parses, else {}
LoadResults(f) == IF f.state = "ok" THEN f.data ELSE <<>>

\* `if start_year is not None and yi < start_year: continue` (same for end_year)
InRange(y, sy, ey) == ~(sy # 0 /\ y < sy) /\ ~(ey # 0 /\ y > ey)

\* the entry integrate stores for a record
Entry(r) ==
    [ai_requirement |-> IF r.ai_requirement = "" THEN "False" ELSE r.ai_requirement]

\* population matches: `r_index[aid] = r` for every record with an ad id
RECURSIVE RIndex(_, _)
RIndex(rs, idx) ==
    IF rs = <<>> THEN idx
    ELSE RIndex(Tail(rs),
                IF Head(rs).ad_id # "" THEN Put(idx, Head(rs).ad_id, Head(rs)) ELSE idx)

\* population matches: the loop over one year's ads of the match index
RECURSIVE MergeAds(_, _, _)
MergeAds(out_ads, ads, r_index) ==
    IF ads = <<>> THEN out_ads
    ELSE MergeAds(IF Has(r_index, Head(ads))
                    THEN Put(out_ads, Head(ads), Entry(Get(r_index, Head(ads), <<>>)))
                    ELSE out_ads,
                  Tail(ads), r_index)

\* population matches: the loop over the years of the match index
RECURSIVE MergeYears(_, _, _, _, _)
MergeYears(out, ms, r_index, sy, ey) ==
    IF ms = <<>> THEN out
    ELSE LET ys == Head(ms)[1]
             ads == Head(ms)[2]
             out_ads == MergeAds(Get(out, ys, <<>>), ads, r_index)
         IN MergeYears(IF InRange(ys, sy, ey) /\ out_ads # <<>>
                         THEN Put(out, ys, out_ads)
                         ELSE out,
                       Tail(ms), r_index, sy, ey)

\* population all: the loop over the records
RECURSIVE MergeRecords(_, _, _, _)
MergeRecords(out, rs, sy, ey) ==
    IF rs = <<>> THEN out
    ELSE LET r == Head(rs) IN
         MergeRecords(IF r.year = 0 \/ r.ad_id = "" \/ ~InRange(r.year, sy, ey)
                        THEN out
                        ELSE Put(out, r.year, Put(Get(out, r.year, <<>>), r.ad_id, Entry(r))),
                      Tail(rs), sy, ey)

\* the dict integrate writes
Integrate(f, rs, pop, ms, sy, ey) ==
    IF pop = "matches"
      THEN MergeYears(LoadResults(f), ms, RIndex(rs, <<>>), sy, ey)
      ELSE MergeRecords(LoadResults(f), rs, sy, ey)

\* records fetch can return: without a year for population matches
\* (custom_id is the ad id), with the year of custom_id "year|ad id" for
\* population all (no year when custom_id has no "|")
ResultRecords(pop) ==
    IF pop = "matches"
      THEN [ad_id : Ads \cup {""}, year : {0}, ai_requirement : Labels]
      ELSE [ad_id : Ads, year : Years \cup {0}, ai_requirement : Labels]
           \cup [ad_id : {""}, year : {1}, ai_requirement : {"True"}]

RECURSIVE SeqsUpTo(_, _)
SeqsUpTo(S, n) ==
    IF n = 0 THEN {<<>>}
    ELSE LET shorter == SeqsUpTo(S, n - 1)
         IN shorter \cup {Append(q, x) : q \in shorter, x \in S}

\* match indexes of the model (the scanner writes years in ascending order)
MatchIndexes ==
    { << <<1, <<"a", "b">>>>, <<2, <<"a">>>> >>,
      << <<1, <<"a">>>>, <<2, <<"b", "a">>>> >>,
      << <<2, <<"b">>>> >> }

\* <<start_year, end_year>> arguments of the model: no limits, year 1 only,
\* from year 2 on, up to year 1
YearRanges == {<<0, 0>>, <<1, 1>>, <<2, 0>>, <<0, 1>>}

R(ad, y, l) == [ad_id |-> ad, year |-> y, ai_requirement |-> l]

\* record lists of earlier runs, whose integration left the existing file
SeedLists(pop) ==
    IF pop = "matches"
      THEN { <<R("a", 0, "True")>>,
             <<R("b", 0, "False"), R("a", 0, "False")>> }
      ELSE { <<R("a", 1, "True")>>,
             <<R("b", 2, "False"), R("a", 1, "False")>>,
             <<R("a", 2, "True"), R("b", 2, "True"), R("b", 1, "True")>> }

\* the aggregated results file before the modelled runs: absent, or written
\* by an earlier integrate run
ExistingFiles(pop, ms) ==
    {AbsentFile} \cup {OkFile(Integrate(AbsentFile, sl, pop, ms, 0, 0)) : sl \in SeedLists(pop)}

InitIntegrate ==
    /\ population \in {"matches", "all"}
    /\ matchIdx \in (IF population = "matches" THEN MatchIndexes ELSE {<<>>})
    /\ results = <<>>
    /\ resFile \in ExistingFiles(population, matchIdx)
    /\ lastOp = "none"
    /\ lastRange = <<0, 0>>
    /\ repeated = FALSE

\* state of the integrate variables under the other specifications
IntegrateQuiet ==
    /\ population = "all"
    /\ matchIdx = <<>>
    /\ results = <<>>
    /\ resFile = AbsentFile
    /\ lastOp = "none"
    /\ lastRange = <<0, 0>>
    /\ repeated = FALSE

\* fetch returns the list of records of the batch output
Fetch ==
    /\ lastOp = "none"
    /\ \E rs \in SeqsUpTo(ResultRecords(population), MaxResults) : results' = rs
    /\ lastOp' = "fetch"
    /\ repeated' = FALSE
    /\ UNCHANGED <<population, matchIdx, resFile, lastRange>>

\* integrate runs to its end: load, merge, write_text
IntegrateRun(sy, ey) ==
    /\ lastOp # "none"
    /\ resFile' = OkFile(Integrate(resFile, results, population, matchIdx, sy, ey))
    /\ repeated' = (lastOp = "integrate" /\ lastRange = <<sy, ey>>)
    /\ lastOp' = "integrate"
    /\ lastRange' = <<sy, ey>>
    /\ UNCHANGED <<population, matchIdx, results>>

\* the process is terminated inside write_text: the file was opened for
\* writing (truncated) and holds a strict prefix of the new text
IntegrateKilled(sy, ey) ==
    /\ lastOp # "none"
    /\ resFile' = TruncatedFile
    /\ repeated' = FALSE
    /\ lastOp' = "killed"
    /\ lastRange' = <<sy, ey>>
    /\ UNCHANGED <<population, matchIdx, results>>

nonIntVars == <<batchVars, labelVars, parseVars, gptVars, reviewVars, scanVars, lookupVars, finalVars, occVars, naicsVars, testsVars, inputVars, sampleVars, targetsVars>>

NextIntegrate ==
    \/ Fetch /\ UNCHANGED nonIntVars
    \/ \E yr \in YearRanges : IntegrateRun(yr[1], yr[2]) /\ UNCHANGED nonIntVars
    \/ \E yr \in YearRanges : IntegrateKilled(yr[1], yr[2]) /\ UNCHANGED nonIntVars

(***************************************************************************)
(* Claims about integrate (checked under SpecIntegrate)                    *)
(***************************************************************************)
NoEntry == [present |-> FALSE, ai_requirement |-> ""]
\* the entry a results file holds for (year, ad id), if it holds one
EntryOf(f, y, ad) ==
    IF f.state = "ok" /\ Has(f.data, y) /\ Has(Get(f.data, y, <<>>), ad)
      THEN [present |-> TRUE,
            ai_requirement |-> Get(Get(f.data, y, <<>>), ad, <<>>).ai_requirement]
      ELSE NoEntry

\* the run has a record for (year, ad id): the year lies within the run's
\* start/end years and the fetched results hold a record of that ad (and,
\* for population all, of that year)
HasRecord(rs, pop, y, ad, yr) ==
    /\ InRange(y, yr[1], yr[2])
    /\ \E i \in 1..Len(rs) :
          /\ rs[i].ad_id = ad
          /\ (pop = "all" => rs[i].year = y)

\* C3: an integrate run leaves every (year, ad id) entry for which the run
\* has no record as it was (present with the same value, or absent); only
\* entries the run has a record for are added or replaced.
C3_MergeNotOverwrite ==
    [][lastOp' = "integrate" =>
          \A y \in Years : \A ad \in Ads :
              ~HasRecord(results, population, y, ad, lastRange') =>
                  EntryOf(resFile', y, ad) = EntryOf(resFile, y, ad)]_vars

\* after an integrate run the file holds an entry the run had no record for
\* (kept from the existing file) next to one the run's records wrote
C3_Witness ==
    /\ lastOp = "integrate"
    /\ \E y \in Years : \E ad \in Ads :
          /\ EntryOf(resFile, y, ad).present
          /\ ~HasRecord(results, population, y, ad, lastRange)
    /\ \E y \in Years : \E ad \in Ads :
          /\ EntryOf(resFile, y, ad).present
          /\ HasRecord(results, population, y, ad, lastRange)

\* C9: an integrate run that repeats the run before it (same fetched
\* results, same arguments, same match index) leaves the results file
\* exactly as that run wrote it.
C9_IntegrateIdempotent ==
    [][repeated' => resFile' = resFile]_vars

\* integrate was run twice in a row on a non-empty result list and wrote entries
C9_Witness ==
    /\ repeated
    /\ results # <<>>
    /\ resFile.state = "ok"
    /\ resFile.data # <<>>

\* C10: the results file on disk always holds complete content, never a
\* truncated or partial text
C10_NeverPartial ==
    resFile.state # "truncated"

(***************************************************************************)
(* fetch: normalisation of ai_requirement                                  *)
(***************************************************************************)
\* a JSON value as fetch tests it: its type, its truth value when a
\* boolean, its characters when a string ("missing": the key is absent)
JV(t, b, txt) == [t |-> t, b |-> b, s |-> txt]
NonStringValues ==
    {JV("missing", FALSE, <<>>), JV("null", FALSE, <<>>), JV("bool", TRUE, <<>>),
     JV("bool", FALSE, <<>>), JV("num", FALSE, <<>>), JV("num", TRUE, <<>>),
     JV("list", FALSE, <<>>), JV("obj", FALSE, <<>>)}

Whitespace == {" ", "\t", "\n"}
LabelAlphabet == {" ", "t", "T", "f", "n", "o", "O"}
LabelWords ==
    { <<"t", "r", "u", "e">>,
      <<"T", "r", "u", "e">>,
      <<"T", "R", "U", "E">>,
      <<"t", "R", "u", "E">>,
      <<" ", "t", "r", "u", "e">>,
      <<"T", "r", "u", "e", " ">>,
      <<" ", " ", "T", "R", "U", "E", " ", " ">>,
      <<"y", "e", "s">>,
      <<"Y", "e", "s">>,
      <<"Y", "E", "S">>,
      <<" ", "y", "e", "s", " ">>,
      <<"f", "a", "l", "s", "e">>,
      <<"F", "a", "l", "s", "e">>,
      <<"F", "A", "L", "S", "E">>,
      <<" ", "F", "a", "l", "s", "e">>,
      <<"n", "o", " ">>,
      <<"m", "a", "y", "b", "e">>,
      <<"M", "a", "y", "b", "e">>,
      <<"M", "A", "Y", "B", "E">>,
      <<" ", "m", "a", "y", "b", "e", " ">>,
      <<"m", "a", "y", "B", "e">>,
      <<"p", "e", "r", "h", "a", "p", "s">>,
      <<"t", "r", "u", "e", "e">>,
      <<"t", "r", " ", "u", "e">>,
      <<"y", "e", "s", "!">>,
      <<"T", "r", "u", "e", ".">>,
      <<"n", "o", "t">>,
      <<"n", "o", "n", "e">>,
      <<"t", "o", "t", "o">>,
      <<"f", "f", "f", "f">>,
      <<"u", "n", "k", "n", "o", "w", "n">> }

LabelStrings == SeqsUpTo(LabelAlphabet, MaxLabelLen) \cup LabelWords
LabelInputs == NonStringValues \cup {JV("str", FALSE, w) : w \in LabelStrings}

TrueS == <<"T", "r", "u", "e">>
MaybeS == <<"M", "a", "y", "b", "e">>
FalseS == <<"F", "a", "l", "s", "e">>

\* str.lower() on the characters of the model
LowerChar(c) ==
    CASE c = "T" -> "t" [] c = "R" -> "r" [] c = "U" -> "u" [] c = "E" -> "e"
      [] c = "Y" -> "y" [] c = "S" -> "s" [] c = "F" -> "f" [] c = "A" -> "a"
      [] c = "L" -> "l" [] c = "N" -> "n" [] c = "O" -> "o" [] c = "M" -> "m"
      [] c = "B" -> "b" [] OTHER -> c
Lower(w) == [i \in 1..Len(w) |-> LowerChar(w[i])]

RECURSIVE LStrip(_)
LStrip(w) == IF w # <<>> /\ Head(w) \in Whitespace THEN LStrip(Tail(w)) ELSE w
RECURSIVE RStrip(_)
RStrip(w) ==
    IF w # <<>> /\ w[Len(w)] \in Whitespace THEN RStrip(SubSeq(w, 1, Len(w) - 1)) ELSE w
\* a strip that forgets the trailing whitespace
StripLeft(w) == LStrip(w)
\* str.strip()
Strip(w) == RStrip(LStrip(w))

\* fetch, lines 397-409: the stored ai_requirement
Normalize(ar) ==
    LET val == Strip(ar.s)
        low == Lower(val)
        ar1 == IF ar.t = "bool" THEN (IF ar.b THEN TrueS ELSE FalseS)
               ELSE IF ar.t = "str"
                 THEN (IF low \in {<<"t", "r", "u", "e">>, <<"t">>, <<"y", "e", "s">>} THEN TrueS
                       ELSE IF low \in {<<"f", "a", "l", "s", "e">>, <<"f">>, <<"n", "o">>} THEN FalseS
                       ELSE IF low = <<"m", "a", "y", "b", "e">> THEN MaybeS
                       ELSE val)
               ELSE FalseS
    IN IF ar1 \notin {TrueS, MaybeS, FalseS} THEN FalseS ELSE ar1

InitLabel ==
    /\ arIn \in LabelInputs
    /\ arOut = <<>>
    /\ normalized = FALSE

LabelQuiet ==
    /\ arIn = JV("missing", FALSE, <<>>)
    /\ arOut = <<>>
    /\ normalized = FALSE

\* fetch normalises the label of one record
NormalizeLabel ==
    /\ ~normalized
    /\ arOut' = Normalize(arIn)
    /\ normalized' = TRUE
    /\ UNCHANGED arIn

nonLabelVars == <<batchVars, intVars, parseVars, gptVars, reviewVars, scanVars, lookupVars, finalVars, occVars, naicsVars, testsVars, inputVars, sampleVars, targetsVars>>

NextLabel ==
    \/ NormalizeLabel /\ UNCHANGED nonLabelVars

(***************************************************************************)
(* Claims about label normalisation (checked under SpecLabel)              *)
(***************************************************************************)
UpperOf(c) ==
    CASE c = "t" -> "T" [] c = "r" -> "R" [] c = "u" -> "U" [] c = "e" -> "E"
      [] c = "y" -> "Y" [] c = "s" -> "S" [] c = "f" -> "F" [] c = "a" -> "A"
      [] c = "l" -> "L" [] c = "n" -> "N" [] c = "o" -> "O" [] c = "m" -> "M"
      [] c = "b" -> "B" [] OTHER -> c

\* txt is the lowercase word w written in any case with whitespace around it
IsWord(txt, w) ==
    \E a \in 0..Len(txt) : \E b \in 0..Len(txt) :
        /\ a + Len(w) + b = Len(txt)
        /\ \A k \in 1..a : txt[k] \in Whitespace
        /\ \A k \in 1..b : txt[Len(txt) - k + 1] \in Whitespace
        /\ \A k \in 1..Len(w) : txt[a + k] \in {w[k], UpperOf(w[k])}

IsAnyWord(v, ws) == v.t = "str" /\ \E w \in ws : IsWord(v.s, w)

\* the table of the claim as written: true/yes, false/no, maybe, all else False
ClaimedLabel(v) ==
    IF v.t = "bool" THEN (IF v.b THEN TrueS ELSE FalseS)
    ELSE IF IsAnyWord(v, {<<"t", "r", "u", "e">>, <<"y", "e", "s">>}) THEN TrueS
    ELSE IF IsAnyWord(v, {<<"f", "a", "l", "s", "e">>, <<"n", "o">>}) THEN FalseS
    ELSE IF IsAnyWord(v, {<<"m", "a", "y", "b", "e">>}) THEN MaybeS
    ELSE FalseS

\* the table with the one-letter forms the code also accepts
AmendedLabel(v) ==
    IF v.t = "bool" THEN (IF v.b THEN TrueS ELSE FalseS)
    ELSE IF IsAnyWord(v, {<<"t", "r", "u", "e">>, <<"y", "e", "s">>, <<"t">>}) THEN TrueS
    ELSE IF IsAnyWord(v, {<<"f", "a", "l", "s", "e">>, <<"n", "o">>, <<"f">>}) THEN FalseS
    ELSE IF IsAnyWord(v, {<<"m", "a", "y", "b", "e">>}) THEN MaybeS
    ELSE FalseS

\* C4 (as written): every label value is normalised as the claim's table
\* says, any string other than true/yes/false/no/maybe giving "False"
C4_ClaimedTable ==
    normalized => arOut = ClaimedLabel(arIn)

\* C4 (amended): normalisation is total onto {"True","Maybe","False"} and
\* follows the table with "t" (any case, whitespace ignored) also mapped to
\* "True" and "f" to "False"
C4_NormalizeTotal ==
    normalized =>
        /\ arOut \in {TrueS, MaybeS, FalseS}
        /\ arOut = AmendedLabel(arIn)

\* the string " yes " (upper case, whitespace around it) was normalised
C4_Witness ==
    /\ normalized
    /\ arIn = JV("str", FALSE, <<" ", "y", "e", "s", " ">>)
    /\ arOut = TrueS

(***************************************************************************)
(* fetch: parsing of the downloaded batch output, line by line             *)
(***************************************************************************)
\* a well-formed result line: the line is JSON, the response body has a
\* choice whose message content is a JSON object with the three fields
GoodLine ==
    [raw |-> "json", cid |-> "a", response |-> "obj", choices |-> "ok",
     content |-> "obj", label |-> JV("str", FALSE, TrueS),
     reason |-> "str", keywords |-> "list"]

\* the ways a line of the output differs from a well-formed one
ResultLines ==
    {GoodLine, [GoodLine EXCEPT !.cid = "b", !.label = JV("str", FALSE, MaybeS)]} \cup
    {[GoodLine EXCEPT !.raw = r] : r \in {"blank", "badjson"}} \cup
    {[GoodLine EXCEPT !.response = r] : r \in {"missing", "null"}} \cup
    {[GoodLine EXCEPT !.choices = c] : c \in {"missing", "empty"}} \cup
    {[GoodLine EXCEPT !.content = c] : c \in {"none", "notjson", "list", "null", "num"}} \cup
    {[GoodLine EXCEPT !.reason = r] : r \in {"missing", "null", "num", "list", "obj"}} \cup
    {[GoodLine EXCEPT !.keywords = k] : k \in {"missing", "null", "str"}} \cup
    {[GoodLine EXCEPT !.label = l] : l \in {JV("missing", FALSE, <<>>), JV("bool", FALSE, <<>>)}}

\* line 378: (obj.get("response") or {}).get("body") or {}
BodyOf(ln) == IF ln.response \in {"missing", "null"} THEN "empty" ELSE "present"

\* lines 379-382: body["choices"][0]["message"]["content"], "{}" on any exception
ContentOf(ln) ==
    IF BodyOf(ln) = "empty" \/ ln.choices \in {"missing", "empty"} THEN "obj-empty"
    ELSE ln.content

\* lines 383-386: json.loads(content), {} on any exception; the kind of value
ParsedOf(ln) ==
    LET c == ContentOf(ln)
    IN IF c \in {"none", "notjson"} THEN "obj-empty" ELSE c

\* the fields read from parsed: absent when parsed is the empty object
FieldsOf(ln) ==
    IF ParsedOf(ln) = "obj" THEN [label |-> ln.label, reason |-> ln.reason, keywords |-> ln.keywords]
    ELSE [label |-> JV("missing", FALSE, <<>>), reason |-> "missing", keywords |-> "missing"]

\* line 388: parsed.get exists on a dict only
GetRaises(ln) == ParsedOf(ln) \notin {"obj", "obj-empty"}

\* line 414: (parsed.get("reason") or "")[:150] slices a string or a list
ReasonRaises(ln) == FieldsOf(ln).reason \in {"num", "obj"}

\* line 368: json.loads(line) outside any try
LineRaises(ln) == ln.raw = "badjson"

ParseRaises(ln) == LineRaises(ln) \/ GetRaises(ln) \/ ReasonRaises(ln)

\* lines 410-416: the record appended for a line
RecordOf(ln) ==
    LET f == FieldsOf(ln)
    IN [ad_id |-> ln.cid,
        ai_requirement |-> Normalize(f.label),
        reason |-> IF f.reason \in {"missing", "null"} THEN "empty" ELSE f.reason,
        keywords |-> IF f.keywords = "list" THEN "list" ELSE "empty"]

InitParse ==
    /\ outLines \in SeqsUpTo(ResultLines, MaxLines)
    /\ parsePos = 0
    /\ records = <<>>
    /\ parseRaised = FALSE

CurrentLine == outLines[parsePos + 1]

ParseOpen == ~parseRaised /\ parsePos < Len(outLines)

\* lines 366-367: a blank line is passed over
ParseBlank ==
    /\ ParseOpen
    /\ CurrentLine.raw = "blank"
    /\ parsePos' = parsePos + 1
    /\ UNCHANGED <<outLines, records, parseRaised>>

\* lines 368-416: one line gives one record
ParseRecord ==
    /\ ParseOpen
    /\ CurrentLine.raw # "blank"
    /\ ~ParseRaises(CurrentLine)
    /\ records' = Append(records, RecordOf(CurrentLine))
    /\ parsePos' = parsePos + 1
    /\ UNCHANGED <<outLines, parseRaised>>

\* an exception outside the two try blocks ends fetch
ParseAbort ==
    /\ ParseOpen
    /\ CurrentLine.raw # "blank"
    /\ ParseRaises(CurrentLine)
    /\ parseRaised' = TRUE
    /\ UNCHANGED <<outLines, parsePos, records>>

nonParseVars == <<batchVars, intVars, labelVars, gptVars, reviewVars, scanVars, lookupVars, finalVars, occVars, naicsVars, testsVars, inputVars, sampleVars, targetsVars>>

NextParse ==
    \/ ParseBlank /\ UNCHANGED nonParseVars
    \/ ParseRecord /\ UNCHANGED nonParseVars
    \/ ParseAbort /\ UNCHANGED nonParseVars

(***************************************************************************)
(* Claims about parsing (checked under SpecParse)                          *)
(***************************************************************************)
\* the malformations the claim lists: everything but a line that is itself
\* not JSON
ListedMalformation(ln) == ln.raw = "json"

\* C5: no line that is JSON makes fetch raise, whatever its response,
\* choices, message content, reason or keywords are: fetch appends a record
\* for it and goes on to the next line
C5_ContentNeverRaises ==
    parseRaised => ~ListedMalformation(CurrentLine)

ParseQuiet ==
    /\ outLines = <<>>
    /\ parsePos = 0
    /\ records = <<>>
    /\ parseRaised = FALSE

(***************************************************************************)
(* validate_ai_mentions_with_gpt: main                                     *)
(***************************************************************************)
\* one match of the index: a keyword and a context snippet, as written
Match(y, kw, txt) == [y |-> y, keyword |-> kw, text |-> txt]

\* keyword/text pairs of the model: the same pair with and without
\* surrounding whitespace, a second keyword, a blank keyword
MatchItems ==
    {<<<<"A">>, <<"x">>>>, <<<<" ", "A">>, <<"x", "\n">>>>,
     <<<<"K">>, <<"x">>>>, <<<<" ">>, <<"x">>>>}

MatchEntries == {Match(y, it[1], it[2]) : y \in Years, it \in MatchItems}

\* `years = sorted(matches.keys())`: the entries are visited by ascending year
YearSorted(ms) == \A i \in 1..Len(ms) : \A j \in 1..Len(ms) : i < j => ms[i].y <= ms[j].y

GptMatchIndexes == {ms \in SeqsUpTo(MatchEntries, MaxMatches) : YearSorted(ms)}

BatchSizes == {1, 2}
\* args.limit, 0 for None
Limits == {0, 1}

\* digest: sha256 of keyword + "\n" + text (the hash is taken as injective)
digest(item) == item.keyword \o <<"\n">> \o item.text

\* iter_tasks: the item yielded for a match
StrippedItem(m) == [keyword |-> Strip(m.keyword), text |-> Strip(m.text)]

\* a membership test that never finds the digest
InCacheNever(d, c) == FALSE
\* `if d in cache: continue`
InCache(d, c) == d \in c

\* lines 207-216: the task list, deduplicated and without cached digests
RECURSIVE BuildTasks(_, _, _, _, _)
BuildTasks(ms, sy, ey, c, seen) ==
    IF ms = <<>> THEN <<>>
    ELSE LET m == Head(ms)
             item == StrippedItem(m)
             d == digest(item)
         IN IF ~InRange(m.y, sy, ey) \/ item.keyword = <<>> \/ item.text = <<>>
              THEN BuildTasks(Tail(ms), sy, ey, c, seen)
            ELSE IF d \in seen THEN BuildTasks(Tail(ms), sy, ey, c, seen)
            ELSE IF InCache(d, c) THEN BuildTasks(Tail(ms), sy, ey, c, seen \cup {d})
            ELSE <<item>> \o BuildTasks(Tail(ms), sy, ey, c, seen \cup {d})

\* lines 218-219: tasks[: args.limit]
LimitTasks(ts, lim) ==
    IF lim = 0 THEN ts ELSE SubSeq(ts, 1, IF lim < Len(ts) THEN lim ELSE Len(ts))

NoCacheFile == [state |-> "absent", data |-> {}]
CacheFileOf(c) == [state |-> "ok", data |-> c]
\* lines 199-204: {} when the file is absent or does not parse
LoadCache(f) == IF f.state = "ok" THEN f.data ELSE {}

\* lines 225-226: tasks[i : i + batch_size] and its digests
BatchOf(ts, i, n) == SubSeq(ts, i + 1, IF i + n < Len(ts) THEN i + n ELSE Len(ts))
BatchDigests(b) == [j \in 1..Len(b) |-> digest(b[j])]
Range(q) == {q[j] : j \in 1..Len(q)}

\* lines 248-273: one output entry per match in range, classified when the
\* digest of the match as written is in the cache
RECURSIVE ValidatedOf(_, _, _, _)
ValidatedOf(ms, sy, ey, c) ==
    IF ms = <<>> THEN <<>>
    ELSE LET m == Head(ms)
         IN IF ~InRange(m.y, sy, ey) THEN ValidatedOf(Tail(ms), sy, ey, c)
            ELSE <<[y |-> m.y, keyword |-> m.keyword, text |-> m.text,
                    classified |-> digest(m) \in c]>>
                 \o ValidatedOf(Tail(ms), sy, ey, c)

GptRunReset ==
    /\ gptPc = "idle"
    /\ cache = {}
    /\ tasks = <<>>
    /\ taskPos = 0
    /\ batchSize = 1
    /\ gptRange = <<0, 0>>
    /\ sentRun = <<>>
    /\ loadedCache = {}

InitGpt ==
    /\ matches \in GptMatchIndexes
    /\ cacheFile = NoCacheFile
    /\ validated = <<>>
    /\ everCompleted = {}
    /\ resent = FALSE
    /\ abortedBefore = FALSE
    /\ GptRunReset

GptQuiet ==
    /\ InitGpt
    /\ matches = <<>>

\* main up to the batch loop: load the cache, build the task list
GptStart(sy, ey, bs, lim) ==
    /\ gptPc = "idle"
    /\ gptPc' = "running"
    /\ cache' = LoadCache(cacheFile)
    /\ tasks' = LimitTasks(BuildTasks(matches, sy, ey, cache', {}), lim)
    /\ taskPos' = 0
    /\ batchSize' = bs
    /\ gptRange' = <<sy, ey>>
    /\ sentRun' = <<>>
    /\ loadedCache' = cache'
    /\ UNCHANGED <<matches, cacheFile, validated, everCompleted, resent, abortedBefore>>

GptBatchOpen == gptPc = "running" /\ taskPos < Len(tasks)

\* one pass of the batch loop: the call answers, every digest of the batch
\* gets a cache entry, the cache is written
GptBatchOk ==
    /\ GptBatchOpen
    /\ LET ds == BatchDigests(BatchOf(tasks, taskPos, batchSize))
       IN /\ sentRun' = sentRun \o ds
          /\ resent' = (resent \/ Range(ds) \cap everCompleted # {})
          /\ cache' = cache \cup Range(ds)
          /\ cacheFile' = CacheFileOf(cache')
          /\ everCompleted' = everCompleted \cup Range(ds)
    /\ taskPos' = taskPos + batchSize
    /\ UNCHANGED <<matches, gptPc, tasks, batchSize, gptRange, validated, loadedCache,
                   abortedBefore>>

\* call_api (or the reading of its answer) raises: the run ends, the batch
\* was sent, nothing is stored for it
GptBatchRaises ==
    /\ GptBatchOpen
    /\ LET ds == BatchDigests(BatchOf(tasks, taskPos, batchSize))
       IN /\ sentRun' = sentRun \o ds
          /\ resent' = (resent \/ Range(ds) \cap everCompleted # {})
    /\ gptPc' = "idle"
    /\ abortedBefore' = TRUE
    /\ UNCHANGED <<matches, cacheFile, cache, tasks, taskPos, batchSize, gptRange,
                   validated, loadedCache, everCompleted>>

\* after the loop: the validated output is written, the run ends
GptFinish ==
    /\ gptPc = "running"
    /\ taskPos >= Len(tasks)
    /\ validated' = ValidatedOf(matches, gptRange[1], gptRange[2], cache)
    /\ gptPc' = "idle"
    /\ UNCHANGED <<matches, cacheFile, cache, tasks, taskPos, batchSize, gptRange,
                   sentRun, loadedCache, everCompleted, resent, abortedBefore>>

nonGptVars == <<batchVars, intVars, labelVars, parseVars, reviewVars, scanVars, lookupVars, finalVars, occVars, naicsVars, testsVars, inputVars, sampleVars, targetsVars>>

NextGpt ==
    \/ (\E r \in YearRanges : \E bs \in BatchSizes : \E lim \in Limits :
            GptStart(r[1], r[2], bs, lim)) /\ UNCHANGED nonGptVars
    \/ GptBatchOk /\ UNCHANGED nonGptVars
    \/ GptBatchRaises /\ UNCHANGED nonGptVars
    \/ GptFinish /\ UNCHANGED nonGptVars

(***************************************************************************)
(* Claims about the digest cache (checked under SpecGpt)                   *)
(***************************************************************************)
\* C8: within a run no digest of the loaded cache is sent and no digest is
\* sent twice; over any sequence of runs, aborted ones included, every
\* digest sent in a completed batch is in the cache file and is not sent
\* again
C8_CachedWorkSkipped ==
    /\ \A i \in 1..Len(sentRun) : sentRun[i] \notin loadedCache
    /\ \A i \in 1..Len(sentRun) : \A j \in 1..Len(sentRun) :
           i # j => sentRun[i] # sentRun[j]
    /\ everCompleted \subseteq LoadCache(cacheFile)
    /\ ~resent

\* a run after an aborted one: it loaded a cache that holds the digest of
\* one of its matches, left that match out and sent another digest
C8_Witness ==
    /\ abortedBefore
    /\ gptPc = "running"
    /\ sentRun # <<>>
    /\ \E i \in 1..Len(matches) :
           /\ InRange(matches[i].y, gptRange[1], gptRange[2])
           /\ digest(StrippedItem(matches[i])) \in loadedCache

\* the match was eligible for submission: keyword and snippet are not blank
Submittable(m) == Strip(m.keyword) # <<>> /\ Strip(m.text) # <<>>

\* C24: the key under which a match is submitted and cached equals the key
\* under which the validated output looks it up, snippets with surrounding
\* whitespace included: every match of the output whose submitted key has a
\* cache entry is written with its classification
C24_SubmittedKeyFound ==
    [][GptFinish =>
         \A i \in 1..Len(validated') :
             (Submittable(validated'[i]) /\ digest(StrippedItem(validated'[i])) \in cache)
                 => validated'[i].classified]_vars

(***************************************************************************)
(* Review application: annotations.json and the annotation widgets         *)
(***************************************************************************)
\* the sample: row i shows the ad whose ad_id is i
SampleRows == 1..MaxSample

\* label_options; "-" stands for the dash that means "unset"
NoLabel == "-"
LabelOptions == {NoLabel, "True", "Maybe", "False"}
Notes == {"", "n"}

Ann(l, n, f) == [label |-> l, reason_note |-> n, flag |-> f]
\* `annotations.get(row["ad_id"], {})` for an ad without annotation
NoAnn == Ann("", "", FALSE)

EmptyAnns == [k \in {} |-> NoAnn]
AnnAbsent == [state |-> "absent", data |-> EmptyAnns]
AnnTruncated == [state |-> "truncated", data |-> EmptyAnns]
AnnOk(d) == [state |-> "ok", data |-> d]

\* _load_annotations: {} when the file is absent or does not parse
LoadAnnotations(f) == IF f.state = "ok" THEN f.data ELSE EmptyAnns

CurrentAnn(d, k) == IF k \in DOMAIN d THEN d[k] ELSE NoAnn

\* a dict holding the new entry alone
SetAnnAlone(d, k, v) == [x \in {k} |-> v]
\* `annotations[row["ad_id"]] = new_ann`
SetAnn(d, k, v) == [x \in DOMAIN d \cup {k} |-> IF x = k THEN v ELSE d[x]]

\* lines 558-560
DefaultLabel(ca) == IF ca.label \in LabelOptions THEN ca.label ELSE NoLabel

\* matches_filters, for the filter "only non-annotated"; the other filters
\* pass every row
FilteredIndices(d, f) == {i \in SampleRows : ~(f /\ i \in DOMAIN d)}

MinOf(S) == CHOOSE x \in S : \A y \in S : x <= y
MaxOf(S) == CHOOSE x \in S : \A y \in S : x >= y

\* buttons that step through the sample whatever the filter says
NavTargetUnfiltered(idx, filt, nav) ==
    IF nav = "prev" /\ idx > 1 THEN idx - 1
    ELSE IF nav = "next" /\ idx < MaxSample THEN idx + 1
    ELSE 0
\* Prev / Next: the row the button moves to, 0 when it does nothing
NavTarget(idx, filt, nav) ==
    LET before == {i \in filt : i < idx}
        after == {i \in filt : i > idx}
    IN IF nav = "prev" /\ before # {} THEN MaxOf(before)
       ELSE IF nav = "next" /\ after # {} THEN MinOf(after)
       ELSE 0

SavePcs == {"save_open", "save_dump", "save_flush", "save_fsync", "save_close", "save_replace"}

\* the step that follows the creation of the temporary file, were json.dump left out
PcAfterOpenNoDump == "save_replace"
\* line 218 follows line 217
PcAfterOpen == "save_dump"

\* what a file holds once the temporary file has been moved onto it
FileFrom(t, d) == IF t \in {"complete", "durable"} THEN AnnOk(d) ELSE AnnTruncated

NoEdit == [ad |-> 0, ann |-> NoAnn]

WidgetsReset ==
    /\ shown' = 0
    /\ wLabel' = NoLabel
    /\ wNote' = ""
    /\ wFlag' = FALSE

\* the end of a run: a button that moves queues another run
EndRun(idx, filt, nav) ==
    LET t == NavTarget(idx, filt, nav)
    IN /\ sessIdx' = (IF t # 0 THEN t ELSE idx)
       /\ runPc' = (IF t # 0 THEN "rerun" ELSE "idle")
       /\ navAfter' = "none"
       /\ annMem' = EmptyAnns

\* one run of main (lines 348-606) with the session index s1 left by the
\* sidebar, the filter f1, the widget values wl/wn/wf sent by the browser
\* for the row shown, and the button nav
RunScript(s1, f1, wl, wn, wf, nav) ==
    LET annotations == LoadAnnotations(annFile)
        filt == FilteredIndices(annotations, f1)
    IN /\ onlyNonAnnotated' = f1
       /\ UNCHANGED annFile
       \* a temporary file orphaned by a crash is never opened again
       /\ tmpFile' = "none"
       /\ IF filt = {}
            THEN \* st.stop(): nothing is rendered
                 /\ WidgetsReset
                 /\ sessIdx' = s1
                 /\ runPc' = "idle"
                 /\ navAfter' = "none"
                 /\ annMem' = EmptyAnns
            ELSE LET idx == IF s1 = 0 \/ s1 \notin filt THEN MinOf(filt) ELSE s1
                     current_ann == CurrentAnn(annotations, idx)
                     kept == shown = idx
                     label == IF kept THEN wl ELSE DefaultLabel(current_ann)
                     note == IF kept THEN wn ELSE current_ann.reason_note
                     flag == IF kept THEN wf ELSE current_ann.flag
                     new_ann == Ann(label, note, flag)
                 IN /\ shown' = idx
                    /\ wLabel' = label
                    /\ wNote' = note
                    /\ wFlag' = flag
                    /\ IF label # NoLabel /\ new_ann # current_ann
                         THEN /\ annMem' = SetAnn(annotations, idx, new_ann)
                              /\ runPc' = "save_open"
                              /\ navAfter' = nav
                              /\ sessIdx' = idx
                         ELSE EndRun(idx, filt, nav)

InitReview ==
    /\ annFile = AnnAbsent
    /\ tmpFile = "none"
    /\ runPc = "down"
    /\ annMem = EmptyAnns
    /\ navAfter = "none"
    /\ sessIdx = 0
    /\ onlyNonAnnotated = FALSE
    /\ shown = 0
    /\ wLabel = NoLabel
    /\ wNote = ""
    /\ wFlag = FALSE
    /\ lastEdit = NoEdit

ReviewQuiet == InitReview

\* the page is opened in a new session
OpenPage ==
    /\ runPc = "down"
    /\ RunScript(0, FALSE, NoLabel, "", FALSE, "none")
    /\ lastEdit' = NoEdit

\* the reviewer picks another label for the row shown
EditLabel(l) ==
    /\ runPc = "idle" /\ shown # 0 /\ l # wLabel
    /\ RunScript(sessIdx, onlyNonAnnotated, l, wNote, wFlag, "none")
    /\ lastEdit' = [ad |-> shown, ann |-> Ann(l, wNote, wFlag)]

EditNote(n) ==
    /\ runPc = "idle" /\ shown # 0 /\ n # wNote
    /\ RunScript(sessIdx, onlyNonAnnotated, wLabel, n, wFlag, "none")
    /\ lastEdit' = [ad |-> shown, ann |-> Ann(wLabel, n, wFlag)]

EditFlag ==
    /\ runPc = "idle" /\ shown # 0
    /\ RunScript(sessIdx, onlyNonAnnotated, wLabel, wNote, ~wFlag, "none")
    /\ lastEdit' = [ad |-> shown, ann |-> Ann(wLabel, wNote, ~wFlag)]

ToggleFilter ==
    /\ runPc = "idle"
    /\ RunScript(sessIdx, ~onlyNonAnnotated, wLabel, wNote, wFlag, "none")
    /\ lastEdit' = NoEdit

\* lines 417-421: "Jump to ad_id" with the id of row j
Jump(j) ==
    /\ runPc = "idle"
    /\ RunScript(j, onlyNonAnnotated, wLabel, wNote, wFlag, "none")
    /\ lastEdit' = NoEdit

PrevNext(nav) ==
    /\ runPc = "idle" /\ shown # 0
    /\ RunScript(sessIdx, onlyNonAnnotated, wLabel, wNote, wFlag, nav)
    /\ lastEdit' = NoEdit

\* the run queued by st.rerun()
Rerun ==
    /\ runPc = "rerun"
    /\ RunScript(sessIdx, onlyNonAnnotated, wLabel, wNote, wFlag, "none")
    /\ UNCHANGED lastEdit

sessionVars == <<sessIdx, onlyNonAnnotated, shown, wLabel, wNote, wFlag>>

\* line 217: NamedTemporaryFile in the directory of annotations.json
SaveOpenTmp ==
    /\ runPc = "save_open"
    /\ tmpFile' = "empty"
    /\ runPc' = PcAfterOpen
    /\ UNCHANGED <<annFile, annMem, navAfter, sessionVars, lastEdit>>

\* line 218: json.dump into the buffered temporary file
SaveDump ==
    /\ runPc = "save_dump"
    /\ tmpFile' = "partial"
    /\ runPc' = "save_flush"
    /\ UNCHANGED <<annFile, annMem, navAfter, sessionVars, lastEdit>>

\* line 219
SaveFlush ==
    /\ runPc = "save_flush"
    /\ tmpFile' = "complete"
    /\ runPc' = "save_fsync"
    /\ UNCHANGED <<annFile, annMem, navAfter, sessionVars, lastEdit>>

\* line 220
SaveFsync ==
    /\ runPc = "save_fsync"
    /\ tmpFile' = "durable"
    /\ runPc' = "save_close"
    /\ UNCHANGED <<annFile, annMem, navAfter, sessionVars, lastEdit>>

\* line 221
SaveClose ==
    /\ runPc = "save_close"
    /\ runPc' = "save_replace"
    /\ UNCHANGED <<annFile, tmpFile, annMem, navAfter, sessionVars, lastEdit>>

\* line 222, then the rest of the run (lines 590-606)
SaveReplace ==
    /\ runPc = "save_replace"
    /\ annFile' = FileFrom(tmpFile, annMem)
    /\ tmpFile' = "none"
    /\ EndRun(shown, FilteredIndices(LoadAnnotations(annFile), onlyNonAnnotated), navAfter)
    /\ UNCHANGED <<onlyNonAnnotated, shown, wLabel, wNote, wFlag, lastEdit>>

\* the process dies: the session is lost, the files stay as they are
Crash ==
    /\ runPc # "down"
    /\ runPc' = "down"
    /\ annMem' = EmptyAnns
    /\ navAfter' = "none"
    /\ sessIdx' = 0
    /\ onlyNonAnnotated' = FALSE
    /\ WidgetsReset
    /\ lastEdit' = NoEdit
    /\ UNCHANGED <<annFile, tmpFile>>

nonReviewVars == <<batchVars, intVars, labelVars, parseVars, gptVars, scanVars, lookupVars, finalVars, occVars, naicsVars, testsVars, inputVars, sampleVars, targetsVars>>

NextReview ==
    \/ OpenPage /\ UNCHANGED nonReviewVars
    \/ (\E l \in LabelOptions : EditLabel(l)) /\ UNCHANGED nonReviewVars
    \/ (\E n \in Notes : EditNote(n)) /\ UNCHANGED nonReviewVars
    \/ EditFlag /\ UNCHANGED nonReviewVars
    \/ ToggleFilter /\ UNCHANGED nonReviewVars
    \/ (\E j \in SampleRows : Jump(j)) /\ UNCHANGED nonReviewVars
    \/ (\E nav \in {"prev", "next"} : PrevNext(nav)) /\ UNCHANGED nonReviewVars
    \/ Rerun /\ UNCHANGED nonReviewVars
    \/ SaveOpenTmp /\ UNCHANGED nonReviewVars
    \/ SaveDump /\ UNCHANGED nonReviewVars
    \/ SaveFlush /\ UNCHANGED nonReviewVars
    \/ SaveFsync /\ UNCHANGED nonReviewVars
    \/ SaveClose /\ UNCHANGED nonReviewVars
    \/ SaveReplace /\ UNCHANGED nonReviewVars
    \/ Crash /\ UNCHANGED nonReviewVars

(***************************************************************************)
(* Claims about the review application (checked under SpecReview)          *)
(***************************************************************************)
\* C11: annotations.json only ever changes by the replace step, and then to
\* the complete new annotations; a crash at any step of the save leaves the
\* complete previous content or the complete new content
C11_SaveAtomic ==
    [][annFile' = annFile \/ (runPc = "save_replace" /\ annFile' = AnnOk(annMem))]_vars

\* a crash in the middle of json.dump: the half-written temporary file is
\* left behind and annotations.json holds the earlier, complete annotations
C11_Witness ==
    /\ runPc = "down"
    /\ tmpFile = "partial"
    /\ annFile.state = "ok"
    /\ DOMAIN annFile.data # {}

\* C12: once the run that observes an edit has ended, the file holds, for
\* the row edited, what the widgets said (stated for the edits that leave
\* the label set)
C12_EditPersisted ==
    (runPc = "idle" /\ lastEdit.ad # 0 /\ lastEdit.ann.label # NoLabel) =>
        /\ lastEdit.ad \in DOMAIN LoadAnnotations(annFile)
        /\ LoadAnnotations(annFile)[lastEdit.ad] = lastEdit.ann

\* C13: no step removes an entry of annotations.json; a run that shows a
\* row with the label at "-" leaves its entry as it was; a save leaves the
\* entries of all other rows as they were
C13_NeverDeletes ==
    [][LET old == LoadAnnotations(annFile)
           new == LoadAnnotations(annFile')
       IN /\ DOMAIN old \subseteq DOMAIN new
          /\ (shown' # 0 /\ wLabel' = NoLabel) =>
                 CurrentAnn(new, shown') = CurrentAnn(old, shown')
          /\ \A k \in DOMAIN old : k # shown => new[k] = old[k]]_vars

\* an annotated row is shown with its label set back to "-", another row is
\* annotated too, and both entries are in the file
C13_Witness ==
    /\ runPc = "idle"
    /\ shown # 0
    /\ wLabel = NoLabel
    /\ DOMAIN LoadAnnotations(annFile) = SampleRows

\* the filtered indices of a run: made from the file as the run loads it
RunFilter == FilteredIndices(LoadAnnotations(annFile), onlyNonAnnotated')
\* a step that is a run of the script
IsRun == runPc \in {"down", "idle", "rerun"} /\ runPc' # "down"

\* the filtered index next to i on the side of the button, i itself when
\* there is none
Adjacent(filt, i, nav) ==
    LET side == IF nav = "prev" THEN {k \in filt : k < i} ELSE {k \in filt : k > i}
    IN IF side = {} THEN i
       ELSE CHOOSE k \in side : \A m \in side : IF nav = "prev" THEN m <= k ELSE k <= m

\* what a press of Prev or Next does in a run that displays an ad (a run
\* whose filter is empty stops before the buttons): the session index goes
\* to the adjacent filtered index, at once or, when the run saves first, at
\* the end of the save
Pressed(nav) ==
    /\ (PrevNext(nav) /\ shown' # 0) =>
           /\ shown' \in RunFilter
           /\ runPc' \in {"idle", "rerun"} => sessIdx' = Adjacent(RunFilter, shown', nav)
           /\ runPc' \notin {"idle", "rerun"} => navAfter' = nav
    /\ (runPc = "save_replace" /\ runPc' # "down" /\ navAfter = nav) =>
           sessIdx' = Adjacent(FilteredIndices(LoadAnnotations(annFile), onlyNonAnnotated),
                               shown, nav)

\* C29: whenever a run displays an ad, its index is one of the filtered
\* indices of that run, after any sequence of filter changes, jumps, Prev
\* and Next; Prev moves to the filtered index just before the current one
\* and Next to the one just after, neither moves at the first or last
\* filtered index, and the run that follows a move displays the row moved
\* to, which the filter does not exclude
C29_NavigationInFilter ==
    [][/\ (IsRun /\ shown' # 0) => shown' \in RunFilter
       /\ Pressed("prev")
       /\ Pressed("next")
       /\ (runPc = "rerun" /\ runPc' # "down") => (shown' = sessIdx /\ shown' \in RunFilter)]_vars

\* the filter leaves the first and third rows, the annotated second row is
\* excluded, and the third row is displayed
C29_Witness ==
    /\ runPc = "idle"
    /\ onlyNonAnnotated
    /\ shown = 3
    /\ DOMAIN LoadAnnotations(annFile) = {2}
    /\ FilteredIndices(LoadAnnotations(annFile), onlyNonAnnotated) = {1, 3}

(***************************************************************************)
(* detect_ai_mentions_fulltext: compile_patterns, find_matches_with_context *)
(***************************************************************************)
\* A text is a sequence of characters; a character outside ASCII is written
\* by its entity name: "uuml" is u-umlaut, "UUML" its capital, "eacute"
\* e-acute, "endash" U+2013, "minus" U+2212, "rsquo" U+2019.
UpperAscii == {"A", "B", "C", "D", "E", "F", "G", "H", "I", "J", "K", "L", "M", "N", "O", "P",
    "Q", "R", "S", "T", "U", "V", "W", "X", "Y", "Z"}
LowerAscii == {"a", "b", "c", "d", "e", "f", "g", "h", "i", "j", "k", "l", "m", "n", "o", "p",
    "q", "r", "s", "t", "u", "v", "w", "x", "y", "z"}
Digits == {"0", "1", "2", "3", "4", "5", "6", "7", "8", "9"}

\* letters_lower, line 44: a-z and the German lowercase letters
LettersLower == LowerAscii \cup {"auml", "ouml", "uuml", "szlig"}

\* WORD_CLASS, line 19: \w on str patterns is any Unicode letter, digit or "_"
WordChars == UpperAscii \cup LettersLower \cup Digits \cup {"_", "UUML", "eacute"}

\* HYPHENS, line 20
UnicodeDashes == {"hyphen", "nbhyphen", "figdash", "endash", "emdash", "minus"}
HYPHENS == {"-"} \cup UnicodeDashes

\* str.replace(old, new) for one-character old and new
Replace(t, old, new) == [i \in 1..Len(t) |-> IF t[i] = old THEN new ELSE t[i]]
\* lines 84-91: the six replace calls, in order
NormDashes(t) ==
    Replace(Replace(Replace(Replace(Replace(Replace(t,
        "hyphen", "-"), "nbhyphen", "-"), "figdash", "-"), "endash", "-"), "emdash", "-"),
        "minus", "-")

\* case folding of (?i)
FoldChar(c) ==
    CASE c = "A" -> "a" [] c = "B" -> "b" [] c = "C" -> "c" [] c = "D" -> "d"
      [] c = "E" -> "e" [] c = "F" -> "f" [] c = "G" -> "g" [] c = "H" -> "h"
      [] c = "I" -> "i" [] c = "J" -> "j" [] c = "K" -> "k" [] c = "L" -> "l"
      [] c = "M" -> "m" [] c = "N" -> "n" [] c = "O" -> "o" [] c = "P" -> "p"
      [] c = "Q" -> "q" [] c = "R" -> "r" [] c = "S" -> "s" [] c = "T" -> "t"
      [] c = "U" -> "u" [] c = "V" -> "v" [] c = "W" -> "w" [] c = "X" -> "x"
      [] c = "Y" -> "y" [] c = "Z" -> "z"
      [] c = "UUML" -> "uuml" [] OTHER -> c

\* positions are 1-based; a span <<a, b>> covers t[a] .. t[b-1], as
\* m.start() / m.end() do
LitAt(t, a, w) == a + Len(w) - 1 <= Len(t) /\ \A k \in 1..Len(w) : t[a + k - 1] = w[k]
LitAtFold(t, a, w) ==
    a + Len(w) - 1 <= Len(t) /\ \A k \in 1..Len(w) : FoldChar(t[a + k - 1]) = FoldChar(w[k])

\* a lookbehind that accepts everything
NoLookbehind(t, a) == TRUE
\* (?<!\w)
NotWordBefore(t, a) == a = 1 \/ t[a - 1] \notin WordChars
\* (?!\w) at position p
NotWordAt(t, p) == p > Len(t) \/ t[p] \notin WordChars
\* (?=[...]) at position p
CharAtIn(t, p, cls) == p <= Len(t) /\ t[p] \in cls
\* \b between t[p-1] and t[p]
WordBoundary(t, p) ==
    (p - 1 >= 1 /\ p - 1 <= Len(t) /\ t[p - 1] \in WordChars) # (p <= Len(t) /\ t[p] \in WordChars)

\* \s+ from position q: the position after the run of whitespace
RECURSIVE WsEnd(_, _)
WsEnd(t, q) == IF q <= Len(t) /\ t[q] \in Whitespace THEN WsEnd(t, q + 1) ELSE q

KiEndings == <<<<"e">>, <<"e", "r">>, <<"e", "n">>, <<"e", "m">>, <<"e", "s">>, <<>>>>
Intelligenz == <<"i", "n", "t", "e", "l", "l", "i", "g", "e", "n", "z">>

\* line 62: (?i)k[uu-umlaut u]nstlich(?:e|er|en|em|es)?\s+intelligenz; the end of
\* the match that starts at a, 0 when there is none
KiMatchEnd(t, a) ==
    IF ~(/\ a + 8 <= Len(t)
         /\ FoldChar(t[a]) = "k"
         /\ FoldChar(t[a + 1]) \in {"uuml", "u"}
         /\ LitAtFold(t, a + 2, <<"n", "s", "t", "l", "i", "c", "h">>))
      THEN 0
    ELSE LET ok(i) == /\ LitAtFold(t, a + 9, KiEndings[i])
                      /\ WsEnd(t, a + 9 + Len(KiEndings[i])) > a + 9 + Len(KiEndings[i])
                      /\ LitAtFold(t, WsEnd(t, a + 9 + Len(KiEndings[i])), Intelligenz)
             fits == {i \in 1..Len(KiEndings) : ok(i)}
         IN IF fits = {} THEN 0
            ELSE LET i == CHOOSE x \in fits : \A y \in fits : x <= y
                 IN WsEnd(t, a + 9 + Len(KiEndings[i])) + Len(Intelligenz)

Pat(kind, lit) == [kind |-> kind, lit |-> lit]

\* the end of the match of pat that starts at a, 0 when there is none
MatchEnd(pat, t, a) ==
    LET n == Len(pat.lit)
    IN CASE pat.kind = "standalone" ->
              IF NotWordBefore(t, a) /\ LitAt(t, a, pat.lit) /\ NotWordAt(t, a + n)
                THEN a + n ELSE 0
         [] pat.kind = "compound" ->
              IF NotWordBefore(t, a) /\ LitAt(t, a, pat.lit) /\ CharAtIn(t, a + n, HYPHENS \cup {"/"})
                THEN a + n ELSE 0
         [] pat.kind = "lowercont" ->
              IF NotWordBefore(t, a) /\ LitAt(t, a, pat.lit) /\ CharAtIn(t, a + n, LettersLower)
                THEN a + n ELSE 0
         [] pat.kind = "plural" ->
              IF ~(NotWordBefore(t, a) /\ LitAt(t, a, pat.lit)) THEN 0
              ELSE IF CharAtIn(t, a + n, {"s"}) /\ WordBoundary(t, a + n + 1) THEN a + n + 1
              ELSE IF /\ CharAtIn(t, a + n, {"'", "rsquo"})
                      /\ CharAtIn(t, a + n + 1, {"s"})
                      /\ WordBoundary(t, a + n + 2) THEN a + n + 2
              ELSE 0
         [] pat.kind = "ki" -> KiMatchEnd(t, a)
         [] pat.kind = "default" ->
              IF NotWordBefore(t, a) /\ LitAtFold(t, a, pat.lit) /\ NotWordAt(t, a + n)
                THEN a + n ELSE 0

\* pat.finditer(norm): the spans found scanning from position p on
RECURSIVE finditer(_, _, _)
finditer(pat, t, p) ==
    IF p > Len(t) THEN <<>>
    ELSE LET b == MatchEnd(pat, t, p)
         IN IF b # 0 THEN <<<<p, b>>>> \o finditer(pat, t, b)
            ELSE finditer(pat, t, p + 1)

\* str.upper() / str.lower() of a keyword of the lexicon (ASCII and u-umlaut)
UpperChar(c) == IF \E u \in UpperAscii \cup {"UUML"} : FoldChar(u) = c
                  THEN CHOOSE u \in UpperAscii \cup {"UUML"} : FoldChar(u) = c
                  ELSE c
KwUpper(w) == [i \in 1..Len(w) |-> UpperChar(w[i])]
KwLower(w) == [i \in 1..Len(w) |-> FoldChar(w[i])]

KwAI == <<"A", "I">>
KwKI == <<"K", "I">>
KwLLM == <<"L", "L", "M">>
KwKiUml == <<"k", "uuml", "n", "s", "t", "l", "i", "c", "h", "e", " ", "I", "n", "t", "e",
    "l", "l", "i", "g", "e", "n", "z">>
KwKiAscii == <<"k", "u", "e", "n", "s", "t", "l", "i", "c", "h", "e", " ", "I", "n", "t", "e",
    "l", "l", "i", "g", "e", "n", "z">>
KwGpt == <<"G", "P", "T">>
KwGpt4 == <<"G", "P", "T", "-", "4">>

\* the lexicon as load_keywords returns it
Lexicon == <<KwAI, KwGpt, KwKI, KwLLM, KwKiAscii, KwKiUml, KwGpt4>>

\* compile_patterns for one keyword, lines 46-67
compile_patterns(kw) ==
    LET kw_upper == KwUpper(kw)
    IN IF kw_upper \in {KwAI, KwKI, KwLLM}
         THEN <<Pat("standalone", kw_upper), Pat("compound", kw_upper), Pat("lowercont", kw_upper)>>
              \o (IF kw_upper = KwLLM THEN <<Pat("plural", kw_upper)>> ELSE <<>>)
       ELSE IF KwLower(kw) \in {KwLower(KwKiUml), KwLower(KwKiAscii)}
         THEN <<Pat("ki", kw)>>
       ELSE <<Pat("default", kw)>>

\* ctx, the default of find_matches_with_context (scan_fulltext passes none)
CTX == 30
Max0(n) == IF n > 1 THEN n ELSE 1
MinLen(n, t) == IF n < Len(t) THEN n ELSE Len(t)

\* lines 101-103, taken from the normalized text
SnippetOfNorm(text, norm, a, b) ==
    SubSeq(norm, Max0(a - CTX), a - 1) \o <<"laquo">> \o SubSeq(norm, a, b - 1)
        \o <<"raquo">> \o SubSeq(norm, b, MinLen(b + CTX - 1, norm))
\* lines 101-103: before, the matched characters between the quotes, after
Snippet(text, norm, a, b) ==
    SubSeq(text, Max0(a - CTX), a - 1) \o <<"laquo">> \o SubSeq(text, a, b - 1)
        \o <<"raquo">> \o SubSeq(text, b, MinLen(b + CTX - 1, text))

\* one match record, with the span it was made from
MatchRec(kw, span, text, norm) ==
    [keyword |-> kw, a |-> span[1], b |-> span[2],
     text |-> Snippet(text, norm, span[1], span[2])]

\* lines 94-108 for one keyword: the records of the spans not seen before
RECURSIVE KwRecords(_, _, _, _, _)
KwRecords(kw, pats, text, norm, seen) ==
    IF pats = <<>> THEN <<>>
    ELSE LET found == finditer(Head(pats), norm, 1)
             fresh == SelectSeq(found, LAMBDA sp : sp \notin seen)
         IN [i \in 1..Len(fresh) |-> MatchRec(kw, fresh[i], text, norm)]
            \o KwRecords(kw, Tail(pats), text, norm, seen \cup Range(fresh))

RECURSIVE LexRecords(_, _, _)
LexRecords(kws, text, norm) ==
    IF kws = <<>> THEN <<>>
    ELSE KwRecords(Head(kws), compile_patterns(Head(kws)), text, norm, {})
         \o LexRecords(Tail(kws), text, norm)

find_matches_with_context(text) == LexRecords(Lexicon, text, NormDashes(text))

\* ---- the texts scanned ----
Befores == {<<>>, <<"M">>, <<" ">>}
Cores == {KwAI, KwKI, KwLLM, <<"a", "i">>}
Afters ==
    {<<>>, <<" ">>, <<"M">>, <<"3">>, <<"_">>, <<"-">>, <<"endash">>, <<"/">>,
     <<"e">>, <<"eacute">>, <<"s">>, <<"'", "s">>, <<"rsquo", "s">>, <<"s", "x">>}
Pieces == {b \o c \o a : b \in Befores, c \in Cores, a \in Afters}

\* up to n pieces, separated by a space
RECURSIVE PieceTexts(_)
PieceTexts(n) ==
    IF n = 1 THEN Pieces
    ELSE LET shorter == PieceTexts(n - 1)
         IN shorter \cup {t \o <<" ">> \o p : t \in shorter, p \in Pieces}

KiStems == {<<"k", "uuml", "n", "s", "t", "l", "i", "c", "h">>, <<"k", "u", "e", "n", "s",
    "t", "l", "i", "c", "h">>, <<"k", "u", "n", "s", "t", "l", "i", "c", "h">>, <<"K", "uuml",
    "n", "s", "t", "l", "i", "c", "h">>}
KiTails == {<<"e">>, <<"e", "r">>, <<"e", "n">>, <<"e", "m">>, <<"e", "s">>, <<>>, <<"e", "r", "e">>}
KiGaps == {<<" ">>, <<"\n">>, <<>>}
KiNouns == {<<"I", "n", "t", "e", "l", "l", "i", "g", "e", "n", "z">>, Intelligenz}
KiTexts == {s \o e \o g \o n : s \in KiStems, e \in KiTails, g \in KiGaps, n \in KiNouns}

ExampleTexts ==
    {<<"W", "e", " ", "u", "s", "e", " ", "A", "I", "-", "d", "r", "i", "v", "e", "n", " ", "a",
        "n", "a", "l", "y", "t", "i", "c", "s", " ", "a", "n", "d", " ", "a", " ", "K", "I", "-", "g",
        "e", "s", "t", "uuml", "t", "z", "t", "e", " ", "p", "l", "a", "t", "f", "o", "r", "m">>,
     <<"G", "P", "T", " ", "a", "n", "d", " ", "L", "L", "M", "s">>}

\* texts with Unicode dashes before, inside and after a match
DashMarks == UnicodeDashes \cup {"-"}
DashTexts ==
    {<<"x", d1, " ", "G", "P", "T", d2, "4", " ", d3>> : d1, d2, d3 \in DashMarks}
    \cup {<<d1, "A", "I", d2, "b", d1>> : d1, d2 \in DashMarks}

ScanTexts == PieceTexts(MaxPieces) \cup KiTexts \cup ExampleTexts \cup DashTexts

InitScan ==
    /\ scanText \in ScanTexts
    /\ scanResults = <<>>
    /\ scanned = FALSE

ScanQuiet ==
    /\ scanText = <<>>
    /\ scanResults = <<>>
    /\ scanned = FALSE

\* scan_fulltext, line 132, for the text of one ad
ScanAd ==
    /\ ~scanned
    /\ scanResults' = find_matches_with_context(scanText)
    /\ scanned' = TRUE
    /\ UNCHANGED scanText

nonScanVars == <<batchVars, intVars, labelVars, parseVars, gptVars, reviewVars, lookupVars, finalVars, occVars, naicsVars, testsVars, inputVars, sampleVars, targetsVars>>

NextScan ==
    \/ ScanAd /\ UNCHANGED nonScanVars

(***************************************************************************)
(* Claims about keyword detection (checked under SpecScan)                 *)
(***************************************************************************)
AbbrevKeywords == {KwAI, KwKI, KwLLM}
\* the lowercase letters of the texts, inside and outside letters_lower
AllLowercase == LettersLower \cup {"eacute"}

OccursAt(k, a) == LitAt(scanText, a, k)
Detected(k, a) ==
    \E i \in 1..Len(scanResults) : scanResults[i].keyword = k /\ scanResults[i].a = a
PrecededByWord(a) == a > 1 /\ scanText[a - 1] \in WordChars
FollowedBy(k, a, cls) == a + Len(k) <= Len(scanText) /\ scanText[a + Len(k)] \in cls
Standalone(k, a) == ~PrecededByWord(a) /\ ~FollowedBy(k, a, WordChars)

\* the detection table for the abbreviations, with `lower` the lowercase
\* letters after which an occurrence counts as a compound
AbbrevTable(lower) ==
    /\ \A k \in AbbrevKeywords : \A a \in 1..Len(scanText) :
           OccursAt(k, a) =>
               /\ Standalone(k, a) => Detected(k, a)
               /\ PrecededByWord(a) => ~Detected(k, a)
               /\ FollowedBy(k, a, UpperAscii \cup {"UUML"} \cup Digits \cup {"_"}) => ~Detected(k, a)
               /\ (~PrecededByWord(a) /\ FollowedBy(k, a, HYPHENS \cup {"/"} \cup lower))
                      => Detected(k, a)
    /\ \A i \in 1..Len(scanResults) :
           scanResults[i].keyword \in AbbrevKeywords =>
               OccursAt(scanResults[i].keyword, scanResults[i].a)

C15_OneRecordPerOccurrence ==
    scanned =>
        \A i \in 1..Len(scanResults) : \A j \in 1..Len(scanResults) :
            (i # j /\ scanResults[i].keyword = scanResults[j].keyword) =>
                \/ scanResults[i].b <= scanResults[j].a
                \/ scanResults[j].b <= scanResults[i].a

KiSpellings == {<<"k", "uuml", "n", "s", "t", "l", "i", "c", "h">>,
                <<"k", "u", "e", "n", "s", "t", "l", "i", "c", "h">>}
KiAdjEndings == {<<"e">>, <<"e", "r">>, <<"e", "n">>, <<"e", "m">>, <<"e", "s">>}
\* the text is the phrase, in either spelling, with an adjectival ending
IsKiPhrase(t) ==
    \E s \in KiSpellings : \E e \in KiAdjEndings : \E g \in {<<" ">>, <<"\n">>} :
        KwLower(t) = s \o e \o g \o Intelligenz

\* C16: the pattern of each of the two "kuenstliche Intelligenz" keywords
\* finds the phrase in either spelling with every adjectival ending
C16_KiPhraseMatched ==
    scanned =>
        (IsKiPhrase(scanText) =>
            \A kw \in {KwKiUml, KwKiAscii} :
                \E i \in 1..Len(scanResults) : scanResults[i].keyword = kw)

\* the characters around a span (a, b) of the text: up to CTX before it, its
\* own, up to CTX after it
CharsBefore(a) == IF a - 1 < CTX THEN a - 1 ELSE CTX
CharsAfter(b) == IF Len(scanText) - b + 1 < CTX THEN Len(scanText) - b + 1 ELSE CTX

SnippetOfOriginal(r) ==
    LET nb == CharsBefore(r.a)
        nm == r.b - r.a
        na == CharsAfter(r.b)
    IN /\ Len(r.text) = nb + nm + na + 2
       /\ \A j \in 1..nb : r.text[j] = scanText[r.a - nb + j - 1]
       /\ r.text[nb + 1] = "laquo"
       /\ \A j \in 1..nm : r.text[nb + 1 + j] = scanText[r.a + j - 1]
       /\ r.text[nb + nm + 2] = "raquo"
       /\ \A j \in 1..na : r.text[nb + nm + 2 + j] = scanText[r.b + j - 1]

\* C27: dash normalization replaces each of the six Unicode dashes by one
\* ASCII hyphen and nothing else, so the normalized text has the length of
\* the original and a span addresses the same characters in both; each
\* snippet is made of the original characters: up to ctx before the match,
\* the matched ones between the quotes, up to ctx after it, cut at the
\* ends of the text, with the original dashes kept
C27_SnippetsFromOriginal ==
    scanned =>
        /\ Len(NormDashes(scanText)) = Len(scanText)
        /\ \A i \in 1..Len(scanText) :
               NormDashes(scanText)[i] =
                   IF scanText[i] \in UnicodeDashes THEN "-" ELSE scanText[i]
        /\ \A i \in 1..Len(scanResults) :
               /\ 1 <= scanResults[i].a
               /\ scanResults[i].a < scanResults[i].b
               /\ scanResults[i].b <= Len(scanText) + 1
               /\ SnippetOfOriginal(scanResults[i])

\* "GPT-4" written with an en dash, between an em dash and a minus sign
C27_Witness ==
    /\ scanned
    /\ scanText = <<"x", "emdash", " ", "G", "P", "T", "endash", "4", " ", "minus">>
    /\ \E i \in 1..Len(scanResults) :
           /\ scanResults[i].keyword = KwGpt4
           /\ scanResults[i].text =
                  <<"x", "emdash", " ", "laquo", "G", "P", "T", "endash", "4", "raquo", " ", "minus">>

(***************************************************************************)
(* Final dataset: lookup_ai_requirement                                    *)
(***************************************************************************)
\* JSON / Python values: None, an int, a str (a sequence of characters)
NoneV == [t |-> "None"]
IntV(n) == [t |-> "int", v |-> n]
StrV(s) == [t |-> "str", v |-> s]

\* str.split("-")
RECURSIVE SplitDash(_)
SplitDash(s) ==
    IF \A i \in 1..Len(s) : s[i] # "-" THEN <<s>>
    ELSE LET d == MinOf({i \in 1..Len(s) : s[i] = "-"})
         IN <<SubSeq(s, 1, d - 1)>> \o SplitDash(SubSeq(s, d + 1, Len(s)))

\* "-".join(parts)
RECURSIVE JoinDash(_)
JoinDash(parts) ==
    IF parts = <<>> THEN <<>>
    ELSE IF Len(parts) = 1 THEN parts[1]
    ELSE parts[1] \o <<"-">> \o JoinDash(Tail(parts))

\* a loop bound that lets the last segment go too
CutStopAll(parts) == IF Len(parts) < 3 THEN Len(parts) + 1 ELSE 3
\* range(1, min(3, len(parts))) stops before this value
CutStop(parts) == IF Len(parts) < 3 THEN Len(parts) ELSE 3

\* "-".join(parts[:-cut])
Trimmed(parts, cut) == JoinDash(SubSeq(parts, 1, Len(parts) - cut))

\* the loop `for cut in range(...)`: the keys it tests and what it returns
RECURSIVE TryCuts(_, _, _)
TryCuts(parts, cut, ai_map) ==
    IF cut >= CutStop(parts) THEN [keys |-> <<>>, result |-> NoneV]
    ELSE LET trimmed == Trimmed(parts, cut)
         IN IF trimmed \in DOMAIN ai_map
            THEN [keys |-> <<trimmed>>, result |-> ai_map[trimmed]]
            ELSE LET rest == TryCuts(parts, cut + 1, ai_map)
                 IN [keys |-> <<trimmed>> \o rest.keys, result |-> rest.result]

LookupRun(ad_id, ai_map) ==
    IF ad_id \in DOMAIN ai_map
    THEN [keys |-> <<ad_id>>, result |-> ai_map[ad_id]]
    ELSE LET loop == TryCuts(SplitDash(ad_id), 1, ai_map)
         IN [keys |-> <<ad_id>> \o loop.keys, result |-> loop.result]

lookup_ai_requirement(ad_id, ai_map) == LookupRun(ad_id, ai_map).result

\* ids: one to MaxSegs segments, a segment may be empty ("a--b", "-a")
IdSegments == {<<>>, <<"a">>, <<"b">>}
SegLists == UNION {[1..n -> IdSegments] : n \in 1..MaxSegs}
\* main passes no empty id (`if not ad_id: continue`)
AdIds == {JoinDash(p) : p \in SegLists} \ {<<>>}

\* ai_map: load_ai_requirements keeps str(label).capitalize() per id; the
\* JSON branch takes every key of the file, the empty one included
AiLabels == {StrV("True"), StrV("False")}
MapKeys == {<<>>, <<"a">>, <<"a", "-", "b">>, <<"a", "-">>, <<"-">>, <<"a", "-", "b", "-", "a">>}
AiMaps == UNION {[K -> AiLabels] : K \in {S \in SUBSET MapKeys : Cardinality(S) <= MaxMapKeys}}

InitLookup ==
    /\ lkId \in AdIds
    /\ lkMap \in AiMaps
    /\ lkKeys = <<>>
    /\ lkResult = NoneV
    /\ lkDone = FALSE

LookupQuiet ==
    /\ lkId = <<"a">>
    /\ lkMap = [k \in {} |-> NoneV]
    /\ lkKeys = <<>>
    /\ lkResult = NoneV
    /\ lkDone = FALSE

Lookup ==
    /\ ~lkDone
    /\ lkKeys' = LookupRun(lkId, lkMap).keys
    /\ lkResult' = lookup_ai_requirement(lkId, lkMap)
    /\ lkDone' = TRUE
    /\ UNCHANGED <<lkId, lkMap>>

nonLookupVars == <<batchVars, intVars, labelVars, parseVars, gptVars, reviewVars, scanVars, finalVars, occVars, naicsVars, testsVars, inputVars, sampleVars, targetsVars>>

NextLookup ==
    \/ Lookup /\ UNCHANGED nonLookupVars

(***************************************************************************)
(* C18                                                                     *)
(***************************************************************************)
\* the claim's words, on the characters of the id: "the id with its last
\* dash-separated segment removed" ends before the last dash
HasDash(s) == \E i \in 1..Len(s) : s[i] = "-"
DropLastSegment(s) == SubSeq(s, 1, MaxOf({i \in 1..Len(s) : s[i] = "-"}) - 1)
\* the candidates in the claimed order: the id, one truncation, two
Candidates(s) ==
    <<s>> \o (IF HasDash(s)
              THEN <<DropLastSegment(s)>> \o
                   (IF HasDash(DropLastSegment(s))
                    THEN <<DropLastSegment(DropLastSegment(s))>> ELSE <<>>)
              ELSE <<>>)
Hits(s, m) == {i \in DOMAIN Candidates(s) : Candidates(s)[i] \in DOMAIN m}
ClaimedLookup(s, m) ==
    IF Hits(s, m) = {} THEN NoneV ELSE m[Candidates(s)[MinOf(Hits(s, m))]]

\* exact id, else one truncation, else two, else None; fewer truncations first
LookupTable == lkDone => lkResult = ClaimedLookup(lkId, lkMap)
\* the id and at most two truncations are tried
AtMostTwoTruncations == lkDone => Len(lkKeys) <= 3
\* no empty key is tested against ai_map
NoEmptyKey == lkDone => \A i \in DOMAIN lkKeys : lkKeys[i] # <<>>

\* k is the id itself or the id cut at one of its dashes
IsDashPrefix(k, s) ==
    \/ k = s
    \/ Len(k) < Len(s) /\ SubSeq(s, 1, Len(k)) = k /\ s[Len(k) + 1] = "-"
\* every key tested keeps at least one segment of the id
KeepsOneSegment == lkDone => \A i \in DOMAIN lkKeys : IsDashPrefix(lkKeys[i], lkId)

\* C18 (as stated): lookup_ai_requirement returns the label of the exact id,
\* else of the id without its last segment, else of the id without its last
\* two segments, else None; it tries at most two truncations, the match with
\* fewer truncations wins, and it never looks up an empty key.
C18_LookupContract == LookupTable /\ AtMostTwoTruncations /\ NoEmptyKey

\* C18 (amended): the same table, at most two truncations, fewer truncations
\* first, and every key looked up keeps at least one dash-separated segment
\* of the id; that segment is empty, and so is the key, when the id starts
\* with a dash.
C18_LookupKeepsSegment == LookupTable /\ AtMostTwoTruncations /\ KeepsOneSegment

\* a label found after two truncations
C18_Witness ==
    /\ lkDone
    /\ Len(lkKeys) = 3
    /\ lkResult # NoneV
    /\ lkKeys[3] # <<>>

(***************************************************************************)
(* Final dataset: main of create_final_dataset.py                          *)
(***************************************************************************)
YEAR_MIN == 2010
YEAR_MAX == 2024

DigitVal(c) ==
    CASE c = "0" -> 0 [] c = "1" -> 1 [] c = "2" -> 2 [] c = "3" -> 3
      [] c = "4" -> 4 [] c = "5" -> 5 [] c = "6" -> 6 [] c = "7" -> 7
      [] c = "8" -> 8 [] c = "9" -> 9

\* str.isdigit()
IsDigitStr(s) == Len(s) > 0 /\ \A i \in 1..Len(s) : s[i] \in Digits

\* int() of a string of digits
RECURSIVE IntOf(_)
IntOf(s) ==
    IF s = <<>> THEN 0
    ELSE 10 * IntOf(SubSeq(s, 1, Len(s) - 1)) + DigitVal(s[Len(s)])

\* int(record[key]) raises for a string that is no number
IntRaises(v) == v.t = "str" /\ ~IsDigitStr(v.v)
IntConv(v) == IF v.t = "int" THEN v.v ELSE IntOf(v.v)

YearKeys == <<"adve_year", "adve_date_year", "year">>

\* the fourth dash-separated segment of adve_iden_sjob
YearFromId(record) ==
    LET ad_id == record.adve_iden_sjob
    IN IF ad_id.t = "str"
       THEN LET parts == SplitDash(ad_id.v)
            IN IF Len(parts) >= 4 /\ IsDigitStr(parts[4])
               THEN IntV(IntOf(parts[4])) ELSE NoneV
       ELSE NoneV

RECURSIVE YearFromKeys(_, _)
YearFromKeys(record, k) ==
    IF k > Len(YearKeys) THEN YearFromId(record)
    ELSE LET v == record[YearKeys[k]]
         IN IF v.t # "None" /\ ~IntRaises(v) THEN IntV(IntConv(v))
            ELSE YearFromKeys(record, k + 1)

extract_year(record) == YearFromKeys(record, 1)

\* a window that leaves both end years out
InWindowOpen(year) == year.t = "int" /\ year.v > YEAR_MIN /\ year.v < YEAR_MAX
\* not (year is None or year < YEAR_MIN or year > YEAR_MAX)
InWindow(year) == year.t = "int" /\ year.v >= YEAR_MIN /\ year.v <= YEAR_MAX

\* `not ad_id`
Falsy(v) == v.t = "None" \/ (v.t = "str" /\ v.v = <<>>)

EmptyDict == [k \in {} |-> NoneV]
DictGet(d, k) == IF k \in DOMAIN d THEN d[k] ELSE NoneV

ExposureRow(o, i, w) ==
    [occupation_exposure |-> o, industry_exposure |-> i,
     industry_exposure_weighted |-> w]

\* the record with the merged fields, as appended to rows
MergedRow(record, year, exps, labels) ==
    LET ad_id == record.adve_iden_sjob.v
        exp == DictGet(exps, ad_id)
        row == IF exp = NoneV THEN EmptyDict ELSE exp
    IN [record |-> record,
        occupation_exposure |-> DictGet(row, "occupation_exposure"),
        industry_exposure |-> DictGet(row, "industry_exposure"),
        industry_exposure_weighted |-> DictGet(row, "industry_exposure_weighted"),
        ai_requirement |-> lookup_ai_requirement(ad_id, labels),
        adve_time_year |-> year.v]

\* the lines of a base file
BadJson == [json |-> "invalid"]
JsonLine(rec) == [json |-> "ok", record |-> rec]
Rec(id, y1, y2, y3) ==
    [adve_iden_sjob |-> id, adve_year |-> y1, adve_date_year |-> y2, year |-> y3]

IdA == <<"a">>
IdAB == <<"a", "-", "b">>
IdYear(y) == <<"b", "-", "a", "-", "b", "-">> \o y
BaseRecords ==
    {Rec(StrV(IdA), IntV(2010), NoneV, NoneV),
     Rec(StrV(IdAB), IntV(2024), NoneV, NoneV),
     Rec(StrV(IdA), IntV(2009), NoneV, NoneV),
     Rec(StrV(IdA), IntV(2025), NoneV, NoneV),
     Rec(StrV(IdA), NoneV, NoneV, NoneV),
     Rec(StrV(IdA), StrV(<<"x">>), NoneV, StrV(<<"2", "0", "1", "5">>)),
     Rec(StrV(IdYear(<<"2", "0", "1", "5">>)), NoneV, NoneV, NoneV),
     Rec(StrV(IdYear(<<"2", "0", "3", "1">>)), NoneV, NoneV, NoneV),
     Rec(StrV(IdYear(<<"x">>)), NoneV, NoneV, NoneV),
     Rec(NoneV, IntV(2015), NoneV, NoneV),
     Rec(StrV(<<>>), IntV(2015), NoneV, NoneV)}
BaseLines == {BadJson} \cup {JsonLine(r) : r \in BaseRecords}
BaseFiles == UNION {[1..n -> BaseLines] : n \in 0..MaxBase}

ExposureLookups == {EmptyDict, [k \in {IdA} |-> ExposureRow(IntV(1), NoneV, IntV(2))]}
AiRequirements == {EmptyDict, [k \in {IdA} |-> StrV("True")]}

InitFinal ==
    /\ baseFile \in BaseFiles
    /\ exposures \in ExposureLookups
    /\ ai_req \in AiRequirements
    /\ finPos = 0
    /\ finRows = <<>>
    /\ finPc = "reading"

FinalQuiet ==
    /\ baseFile = <<>>
    /\ exposures = EmptyDict
    /\ ai_req = EmptyDict
    /\ finPos = 0
    /\ finRows = <<>>
    /\ finPc = "norows"

finInputs == <<baseFile, exposures, ai_req>>

NextLine == baseFile[finPos + 1]
Reading == finPc = "reading" /\ finPos < Len(baseFile)

\* json.loads(line) raises: nothing catches it
FinalLoadRaises ==
    /\ Reading
    /\ NextLine.json = "invalid"
    /\ finPc' = "aborted"
    /\ UNCHANGED <<finPos, finRows, finInputs>>

\* `continue` on the year test
FinalSkipYear ==
    /\ Reading
    /\ NextLine.json = "ok"
    /\ ~InWindow(extract_year(NextLine.record))
    /\ finPos' = finPos + 1
    /\ UNCHANGED <<finRows, finPc, finInputs>>

\* `continue` on `not ad_id`
FinalSkipNoId ==
    /\ Reading
    /\ NextLine.json = "ok"
    /\ InWindow(extract_year(NextLine.record))
    /\ Falsy(NextLine.record.adve_iden_sjob)
    /\ finPos' = finPos + 1
    /\ UNCHANGED <<finRows, finPc, finInputs>>

\* rows.append(record)
FinalAppend ==
    /\ Reading
    /\ NextLine.json = "ok"
    /\ InWindow(extract_year(NextLine.record))
    /\ ~Falsy(NextLine.record.adve_iden_sjob)
    /\ finRows' = Append(finRows,
            MergedRow(NextLine.record, extract_year(NextLine.record), exposures, ai_req))
    /\ finPos' = finPos + 1
    /\ UNCHANGED <<finPc, finInputs>>

\* `if not rows: raise SystemExit(...)`
FinalNoRows ==
    /\ finPc = "reading"
    /\ finPos = Len(baseFile)
    /\ finRows = <<>>
    /\ finPc' = "norows"
    /\ UNCHANGED <<finPos, finRows, finInputs>>

\* the data frame of the rows is written
FinalWrite ==
    /\ finPc = "reading"
    /\ finPos = Len(baseFile)
    /\ finRows # <<>>
    /\ finPc' = "done"
    /\ UNCHANGED <<finPos, finRows, finInputs>>

nonFinalVars == <<batchVars, intVars, labelVars, parseVars, gptVars, reviewVars, scanVars, lookupVars, occVars, naicsVars, testsVars, inputVars, sampleVars, targetsVars>>

NextFinal ==
    \/ FinalLoadRaises /\ UNCHANGED nonFinalVars
    \/ FinalSkipYear /\ UNCHANGED nonFinalVars
    \/ FinalSkipNoId /\ UNCHANGED nonFinalVars
    \/ FinalAppend /\ UNCHANGED nonFinalVars
    \/ FinalNoRows /\ UNCHANGED nonFinalVars
    \/ FinalWrite /\ UNCHANGED nonFinalVars

(***************************************************************************)
(* C17, C19                                                                *)
(***************************************************************************)
\* C17: a line that is not valid JSON is skipped on its own and the run
\* goes on with the next line: no malformed line aborts the run.
C17_BadLineSkipped == finPc # "aborted"

\* the claim's conditions on a base record
HasId(rec) == rec.adve_iden_sjob.t = "str" /\ rec.adve_iden_sjob.v # <<>>
YearInWindow(rec) ==
    extract_year(rec).t = "int" /\ extract_year(rec).v \in 2010..2024
Qualifies(line) == line.json = "ok" /\ HasId(line.record) /\ YearInWindow(line.record)
Finished == finPc \in {"done", "norows"}

\* C19: when the assembler has run, the rows are the base records with a
\* non-empty adve_iden_sjob and an extracted year in [2010, 2024], one row
\* each and in order, and nothing else; a row whose id is not in the exposure
\* lookup has the three exposure fields null, a row without label after the
\* fallback has a null label.
C19_OneRowPerRecord ==
    Finished =>
        LET kept == SelectSeq(baseFile, Qualifies)
        IN /\ Len(finRows) = Len(kept)
           /\ \A k \in DOMAIN finRows :
                LET row == finRows[k]
                    id == row.record.adve_iden_sjob.v
                IN /\ row.record = kept[k].record
                   /\ row.adve_time_year = extract_year(row.record).v
                   /\ id \notin DOMAIN exposures =>
                        /\ row.occupation_exposure = NoneV
                        /\ row.industry_exposure = NoneV
                        /\ row.industry_exposure_weighted = NoneV
                   /\ id \in DOMAIN exposures =>
                        /\ row.occupation_exposure = exposures[id].occupation_exposure
                        /\ row.industry_exposure = exposures[id].industry_exposure
                        /\ row.industry_exposure_weighted =
                               exposures[id].industry_exposure_weighted
                   /\ row.ai_requirement = ClaimedLookup(id, ai_req)

\* two records kept, one without exposure entry and without label, after a
\* record outside the window was left out
C19_Witness ==
    /\ finPc = "done"
    /\ Len(baseFile) > Len(finRows)
    /\ \E k \in DOMAIN finRows :
        /\ finRows[k].record.adve_iden_sjob.v \notin DOMAIN exposures
        /\ finRows[k].occupation_exposure = NoneV
        /\ finRows[k].ai_requirement = NoneV
        /\ finRows[k].adve_time_year = 2024

(***************************************************************************)
(* Exposure assets: build_occupation_lookup, write_mapping_files           *)
(***************************************************************************)
\* a float: NaN or the quotient n / d
NaN == [t |-> "nan"]
Num(n, d) == [t |-> "num", n |-> n, d |-> d]
IsNa(x) == x.t = "nan"

\* SOC codes, already stripped; their order is the order `sorted` gives
SocCodes == 1..MaxSoc
AioeValues == {-1, 1}

\* soc_exposure after dropna and pd.to_numeric(errors="coerce"): a code of
\* the sheet has a number, or NaN when its AIOE cell is no number
SocTables ==
    UNION {[K -> {Num(v, 1) : v \in AioeValues} \cup {NaN}] : K \in SUBSET SocCodes}

\* ISCO-08 codes as the crosswalk file spells them
IscoRawCodes == <<<<"2", "1", "1">>, <<"3", "1", ".", "1", "1">>>>

\* .str.replace(".", "", regex=False)
RemoveDots(s) == SelectSeq(s, LAMBDA c : c # ".")
\* .str.zfill(4)
RECURSIVE ZFill4(_)
ZFill4(s) == IF Len(s) >= 4 THEN s ELSE ZFill4(<<"0">> \o s)
NormIsco(s) == ZFill4(RemoveDots(s))

\* the crosswalk files: every SOC-ISCO pair at most once, in file order
\* the second ISCO code is mapped from the first two SOC codes only
Pairs == {p \in SocCodes \X DOMAIN IscoRawCodes : p[2] = 1 \/ p[1] <= 2}
PairKey(p) == 10 * p[1] + p[2]
CrosswalkRow(p) ==
    [soc |-> p[1], isco |-> IscoRawCodes[p[2]], part |-> IF p[1] = 1 THEN "*" ELSE ""]
RECURSIVE RowsOf(_)
RowsOf(P) ==
    IF P = {} THEN <<>>
    ELSE LET p == CHOOSE x \in P : \A y \in P : PairKey(x) <= PairKey(y)
         IN <<CrosswalkRow(p)>> \o RowsOf(P \ {p})
Crosswalks == {RowsOf(P) : P \in (SUBSET Pairs) \ {{}}}

\* crosswalk.merge(soc_exposure, how="left") after the ISCO normalisation
MergedRowOf(row, soc_exposure) ==
    [soc |-> row.soc, isco |-> NormIsco(row.isco), part |-> row.part,
     AIOE |-> IF row.soc \in DOMAIN soc_exposure THEN soc_exposure[row.soc] ELSE NaN]
Merged(cw, soc_exposure) == [k \in DOMAIN cw |-> MergedRowOf(cw[k], soc_exposure)]

\* sorted(...) of a set of codes
RECURSIVE Sorted(_)
Sorted(S) == IF S = {} THEN <<>> ELSE <<MinOf(S)>> \o Sorted(S \ {MinOf(S)})

SocsOf(rows) == {rows[k].soc : k \in DOMAIN rows}

\* every row kept, a missing AIOE counted as 0
AvailableZeroFilled(group) ==
    [k \in DOMAIN group |->
        IF IsNa(group[k].AIOE) THEN [group[k] EXCEPT !.AIOE = Num(0, 1)] ELSE group[k]]
\* group.dropna(subset=["AIOE"])
Available(group) == SelectSeq(group, LAMBDA r : ~IsNa(r.AIOE))

RECURSIVE SumAioe(_)
SumAioe(rows) == IF rows = <<>> THEN 0 ELSE Head(rows).AIOE.n + SumAioe(Tail(rows))

summarise(group) ==
    LET soc_codes == Sorted(SocsOf(group))
        available == Available(group)
        matched_soc == Sorted(SocsOf(available))
        missing_soc == Sorted(SocsOf(group) \ SocsOf(available))
    IN [aioe |-> IF available = <<>> THEN NaN ELSE Num(SumAioe(available), Len(available)),
        soc_codes |-> soc_codes,
        matched_soc_codes |-> matched_soc,
        missing_soc_codes |-> missing_soc,
        partial_mapping_count |-> Len(SelectSeq(group, LAMBDA r : r.part = "*"))]

\* merged.groupby("ISCO-08 Code").apply(summarise)
GroupBy(merged) ==
    [isco \in {merged[k].isco : k \in DOMAIN merged} |->
        summarise(SelectSeq(merged, LAMBDA r : r.isco = isco))]

\* {isco: codes for isco, codes in ... if codes}
OccMissing(df) ==
    [isco \in {i \in DOMAIN df : df[i].missing_soc_codes # <<>>} |-> df[isco].missing_soc_codes]

OccPayload(df) ==
    [isco \in DOMAIN df |->
        [aioe |-> IF IsNa(df[isco].aioe) THEN NoneV ELSE df[isco].aioe,
         soc_codes |-> df[isco].soc_codes,
         matched_soc_codes |-> df[isco].matched_soc_codes,
         partial_mapping_count |-> df[isco].partial_mapping_count]]

NoFrame == [k \in {} |-> NoneV]

InitOcc ==
    /\ socExposure \in SocTables
    /\ crosswalk \in Crosswalks
    /\ occupation_df = NoFrame
    /\ occ_missing = NoFrame
    /\ occ_payload = NoFrame
    /\ gapsFile = NoFrame
    /\ occPc = "start"

OccQuiet ==
    /\ socExposure = NoFrame
    /\ crosswalk = <<>>
    /\ occupation_df = NoFrame
    /\ occ_missing = NoFrame
    /\ occ_payload = NoFrame
    /\ gapsFile = NoFrame
    /\ occPc = "done"

occInputs == <<socExposure, crosswalk>>

build_occupation_lookup ==
    /\ occPc = "start"
    /\ occupation_df' = GroupBy(Merged(crosswalk, socExposure))
    /\ occ_missing' = OccMissing(occupation_df')
    /\ occPc' = "built"
    /\ UNCHANGED <<occ_payload, gapsFile, occInputs>>

write_mapping_files ==
    /\ occPc = "built"
    /\ occ_payload' = OccPayload(occupation_df)
    /\ occPc' = "mapped"
    /\ UNCHANGED <<occupation_df, occ_missing, gapsFile, occInputs>>

\* main writes exposure_gaps.json
WriteGaps ==
    /\ occPc = "mapped"
    /\ gapsFile' = occ_missing
    /\ occPc' = "done"
    /\ UNCHANGED <<occupation_df, occ_missing, occ_payload, occInputs>>

nonOccVars == <<batchVars, intVars, labelVars, parseVars, gptVars, reviewVars, scanVars, lookupVars, finalVars, naicsVars, testsVars, inputVars, sampleVars, targetsVars>>

NextOcc ==
    \/ build_occupation_lookup /\ UNCHANGED nonOccVars
    \/ write_mapping_files /\ UNCHANGED nonOccVars
    \/ WriteGaps /\ UNCHANGED nonOccVars

(***************************************************************************)
(* C20                                                                     *)
(***************************************************************************)
\* the ISCO codes of the crosswalk, with the SOC codes mapped to each and
\* those of them that have an AIOE value
IscoCodes == {NormIsco(crosswalk[k].isco) : k \in DOMAIN crosswalk}
SocCodesOf(isco) ==
    {crosswalk[k].soc : k \in {j \in DOMAIN crosswalk : NormIsco(crosswalk[j].isco) = isco}}
HasAioe(soc) == soc \in DOMAIN socExposure /\ socExposure[soc].t = "num"
MatchedOf(isco) == {s \in SocCodesOf(isco) : HasAioe(s)}
UnmatchedOf(isco) == SocCodesOf(isco) \ MatchedOf(isco)

RECURSIVE SumOver(_)
SumOver(S) ==
    IF S = {} THEN 0
    ELSE LET s == CHOOSE x \in S : TRUE IN socExposure[s].n + SumOver(S \ {s})
\* x is the mean of the AIOE values of the codes in S
IsMeanOver(x, S) == x.t = "num" /\ x.n * Cardinality(S) = SumOver(S) * x.d

InGapReport(isco, codes) ==
    isco \in DOMAIN gapsFile /\ Range(gapsFile[isco]) = codes

\* C20: an ISCO code none of whose SOC codes has an AIOE value has exposure
\* null in the occupation lookup and is in the gap report with all its SOC
\* codes; an ISCO code with matched and unmatched SOC codes has the mean of
\* the matched ones as exposure and its unmatched codes in the gap report.
C20_GapsReported ==
    occPc = "done" =>
        \A isco \in IscoCodes :
            /\ isco \in DOMAIN occ_payload
            /\ MatchedOf(isco) = {} =>
                /\ occ_payload[isco].aioe = NoneV
                /\ InGapReport(isco, SocCodesOf(isco))
            /\ MatchedOf(isco) # {} =>
                /\ IsMeanOver(occ_payload[isco].aioe, MatchedOf(isco))
                /\ UnmatchedOf(isco) # {} => InGapReport(isco, UnmatchedOf(isco))

\* one ISCO code without any matched SOC code next to one matched in part
C20_Witness ==
    /\ occPc = "done"
    /\ \E i \in IscoCodes : MatchedOf(i) = {} /\ occ_payload[i].aioe = NoneV
    /\ \E i \in IscoCodes :
        /\ Cardinality(MatchedOf(i)) >= 2
        /\ UnmatchedOf(i) # {}
        /\ i \in DOMAIN gapsFile

(***************************************************************************)
(* NAICS exposure: load_clean_naics_exposure                               *)
(***************************************************************************)
\* re.findall(r"\(([^)]+)\)", title) from position p on: the text between an
\* opening parenthesis and the next closing one, when it is not empty
RECURSIVE ParenParts(_, _)
ParenParts(title, p) ==
    LET opens == {i \in p..Len(title) :
                    /\ title[i] = "("
                    /\ i + 1 <= Len(title) /\ title[i + 1] # ")"
                    /\ \E j \in (i + 2)..Len(title) : title[j] = ")"}
    IN IF opens = {} THEN <<>>
       ELSE LET i == MinOf(opens)
                j == MinOf({k \in (i + 2)..Len(title) : title[k] = ")"})
            IN <<SubSeq(title, i + 1, j - 1)>> \o ParenParts(title, j + 1)

\* NAICS_PATTERN.findall(part) from position p on: \b(\d{4})\b
NaicsAt(part, k) ==
    /\ k + 3 <= Len(part)
    /\ \A d \in 0..3 : part[k + d] \in Digits
    /\ (k = 1 \/ part[k - 1] \notin WordChars)
    /\ (k + 3 = Len(part) \/ part[k + 4] \notin WordChars)
RECURSIVE NaicsFindall(_, _)
NaicsFindall(part, p) ==
    LET starts == {k \in p..Len(part) : NaicsAt(part, k)}
    IN IF starts = {} THEN <<>>
       ELSE <<SubSeq(part, MinOf(starts), MinOf(starts) + 3)>>
            \o NaicsFindall(part, MinOf(starts) + 4)

RECURSIVE FlattenCodes(_)
FlattenCodes(parts) ==
    IF parts = <<>> THEN <<>>
    ELSE NaicsFindall(Head(parts), 1) \o FlattenCodes(Tail(parts))

\* code[:4]
Cut4(code) == SubSeq(code, 1, IF Len(code) < 4 THEN Len(code) ELSE 4)

_extract_child_naics(title) ==
    IF title.t # "str" THEN <<>>
    ELSE LET found == FlattenCodes(ParenParts(title.v, 1))
         IN [k \in DOMAIN found |-> Cut4(found[k])]

\* sorted(set(...)) of codes of four digits
RECURSIVE SortCodes(_)
SortCodes(S) ==
    IF S = {} THEN <<>>
    ELSE LET m == CHOOSE x \in S : \A y \in S : IntOf(x) <= IntOf(y)
         IN <<m>> \o SortCodes(S \ {m})

\* naics_clean of the crosswalk rows kept by the two filters
NaicsClean(cw) ==
    LET clean == [k \in DOMAIN cw |-> Strip(RemoveDots(cw[k]))]
    IN SelectSeq(clean, LAMBDA c : IsDigitStr(c) /\ c # <<"0">>)

_build_prefix_map(cw) ==
    LET codes == Range(NaicsClean(cw))
    IN [prefix3 \in {SubSeq(c, 1, IF Len(c) < 3 THEN Len(c) ELSE 3) : c \in codes} |->
          SortCodes({Cut4(c) : c \in {x \in codes :
                        SubSeq(x, 1, IF Len(x) < 3 THEN Len(x) ELSE 3) = prefix3
                        /\ Len(Cut4(x)) = 4}})]

\* prefix_map.get(naics[:3], [])
PrefixChildren(prefix_map, naics) ==
    LET p == SubSeq(naics, 1, IF Len(naics) < 3 THEN Len(naics) ELSE 3)
    IN IF p \in DOMAIN prefix_map THEN prefix_map[p] ELSE <<>>

EndsWith0(naics) == Len(naics) > 0 /\ naics[Len(naics)] = "0"

OutRow(code, exposure, src) == [NAICS |-> code, AIIE |-> exposure, source_naics |-> src]
RowsFor(codes, exposure, src) == [k \in DOMAIN codes |-> OutRow(codes[k], exposure, src)]

\* of the rows sharing a NAICS code the last is kept
DropDuplicatesLast(rows) ==
    SelectSeq([k \in DOMAIN rows |-> [rows[k] EXCEPT !.source_naics = k]],
              LAMBDA r : \A j \in DOMAIN rows : j > r.source_naics => rows[j].NAICS # rows[r.source_naics].NAICS)
\* clean_df.drop_duplicates(subset=["NAICS"]): the first is kept
DropDuplicates(rows) ==
    SelectSeq([k \in DOMAIN rows |-> [rows[k] EXCEPT !.source_naics = k]],
              LAMBDA r : \A j \in DOMAIN rows : j < r.source_naics => rows[j].NAICS # rows[r.source_naics].NAICS)

\* lines 88-91: the NAICS column cut to four characters, duplicates dropped,
\* the columns NAICS and AIIE returned
CleanFrame(rows) ==
    LET cut == [k \in DOMAIN rows |-> [rows[k] EXCEPT !.NAICS = Cut4(rows[k].NAICS)]]
        kept == DropDuplicates(cut)
    IN [k \in DOMAIN kept |-> [NAICS |-> kept[k].NAICS, AIIE |-> kept[k].AIIE]]

\* the sheets
C1110 == <<"1", "1", "1", "0">>
C1111 == <<"1", "1", "1", "1">>
C1112 == <<"1", "1", "1", "2">>
C1120 == <<"1", "1", "2", "0">>
C11111 == <<"1", "1", "1", "1", "1">>
TitlePlain == StrV(<<"x">>)
TitleListed == StrV(<<"x", "(">> \o C1111 \o <<",", " ">> \o C1112 \o <<")">>)
TitleWords == StrV(<<"x", "(", "a", ")", "(", ")">>)
TitleMixed == StrV(<<"(">> \o C11111 \o <<" ">> \o C1111 \o <<")", "(", "a">> \o C1112 \o <<")">>)
SheetRow(n, t, a) == [NAICS |-> n, title |-> t, AIIE |-> a]
AiieValues == {1, 2}
SheetRows ==
    {SheetRow(r[1], r[2], a) :
        r \in {<<C1110, TitlePlain>>, <<C1110, TitleListed>>, <<C1111, TitlePlain>>,
               <<C1120, TitlePlain>>, <<C1112, TitleWords>>, <<C11111, NoneV>>,
               <<C1120, TitleMixed>>},
        a \in AiieValues}
Sheets == UNION {[1..n -> SheetRows] : n \in 0..MaxSheet}
NaicsCrosswalks ==
    {<<>>,
     <<<<"1", "1", "1">>>>,
     <<C1111 \o <<"1", "0">>, <<" ">> \o C1112 \o <<".", "1">>, <<"1", "1", "1">>,
       <<"0">>, <<"x">>>>}

InitNaics ==
    /\ naicsSheet \in Sheets
    /\ naicsCrosswalk \in NaicsCrosswalks
    /\ naicsPos = 0
    /\ naicsRows = <<>>
    /\ naicsOut = <<>>
    /\ naicsPc = "rows"

NaicsQuiet ==
    /\ naicsSheet = <<>>
    /\ naicsCrosswalk = <<>>
    /\ naicsPos = 0
    /\ naicsRows = <<>>
    /\ naicsOut = <<>>
    /\ naicsPc = "aborted"

naicsInputs == <<naicsSheet, naicsCrosswalk>>
NaicsRow == naicsSheet[naicsPos + 1]
InLoop == naicsPc = "rows" /\ naicsPos < Len(naicsSheet)

\* `if child_codes:` one row per listed child
ExpandListed ==
    /\ InLoop
    /\ _extract_child_naics(NaicsRow.title) # <<>>
    /\ naicsRows' = naicsRows \o
            RowsFor(SortCodes(Range(_extract_child_naics(NaicsRow.title))),
                    NaicsRow.AIIE, NaicsRow.NAICS)
    /\ naicsPos' = naicsPos + 1
    /\ UNCHANGED <<naicsOut, naicsPc, naicsInputs>>

\* a code ending in 0 whose prefix has children in the crosswalk
ExpandPrefix ==
    /\ InLoop
    /\ _extract_child_naics(NaicsRow.title) = <<>>
    /\ EndsWith0(NaicsRow.NAICS)
    /\ PrefixChildren(_build_prefix_map(naicsCrosswalk), NaicsRow.NAICS) # <<>>
    /\ naicsRows' = naicsRows \o
            RowsFor(PrefixChildren(_build_prefix_map(naicsCrosswalk), NaicsRow.NAICS),
                    NaicsRow.AIIE, NaicsRow.NAICS)
    /\ naicsPos' = naicsPos + 1
    /\ UNCHANGED <<naicsOut, naicsPc, naicsInputs>>

\* line 86: the row itself
PassThrough ==
    /\ InLoop
    /\ _extract_child_naics(NaicsRow.title) = <<>>
    /\ ~(/\ EndsWith0(NaicsRow.NAICS)
         /\ PrefixChildren(_build_prefix_map(naicsCrosswalk), NaicsRow.NAICS) # <<>>)
    /\ naicsRows' = Append(naicsRows, OutRow(NaicsRow.NAICS, NaicsRow.AIIE, NaicsRow.NAICS))
    /\ naicsPos' = naicsPos + 1
    /\ UNCHANGED <<naicsOut, naicsPc, naicsInputs>>

\* lines 88-91
ReturnClean ==
    /\ naicsPc = "rows"
    /\ naicsPos = Len(naicsSheet)
    /\ naicsRows # <<>>
    /\ naicsOut' = CleanFrame(naicsRows)
    /\ naicsPc' = "done"
    /\ UNCHANGED <<naicsPos, naicsRows, naicsInputs>>

\* pd.DataFrame([]) has no NAICS column: line 89 raises KeyError
NoRowsRaises ==
    /\ naicsPc = "rows"
    /\ naicsPos = Len(naicsSheet)
    /\ naicsRows = <<>>
    /\ naicsPc' = "aborted"
    /\ UNCHANGED <<naicsPos, naicsRows, naicsOut, naicsInputs>>

nonNaicsVars == <<batchVars, intVars, labelVars, parseVars, gptVars, reviewVars, scanVars, lookupVars, finalVars, occVars, testsVars, inputVars, sampleVars, targetsVars>>

NextNaics ==
    \/ ExpandListed /\ UNCHANGED nonNaicsVars
    \/ ExpandPrefix /\ UNCHANGED nonNaicsVars
    \/ PassThrough /\ UNCHANGED nonNaicsVars
    \/ ReturnClean /\ UNCHANGED nonNaicsVars
    \/ NoRowsRaises /\ UNCHANGED nonNaicsVars

(***************************************************************************)
(* C21                                                                     *)
(***************************************************************************)
\* the codes a sheet row stands for, in the claim's three cases
ListedChildren(row) == Range(_extract_child_naics(row.title))
KnownChildren(row) ==
    IF EndsWith0(row.NAICS)
    THEN Range(PrefixChildren(_build_prefix_map(naicsCrosswalk), row.NAICS))
    ELSE {}
CodesOf(row) ==
    IF ListedChildren(row) # {} THEN ListedChildren(row)
    ELSE IF KnownChildren(row) # {} THEN KnownChildren(row)
    ELSE {row.NAICS}
HasOutRow(code, aiie) ==
    \E k \in DOMAIN naicsOut : naicsOut[k].NAICS = code /\ naicsOut[k].AIIE = aiie
OneRowPerCode ==
    \A j, k \in DOMAIN naicsOut : naicsOut[j].NAICS = naicsOut[k].NAICS => j = k

FirstRowFor(code) ==
    MinOf({k \in DOMAIN naicsSheet : \E c \in CodesOf(naicsSheet[k]) : Cut4(c) = code})

Searches(kw, text) ==
    \E k \in DOMAIN compile_patterns(kw) : finditer(compile_patterns(kw)[k], text, 1) # <<>>

\* found: kw.lower() of the keywords of the lexicon with a match, in order
FoundIn(text) ==
    LET hit == SelectSeq(Lexicon, LAMBDA kw : Searches(kw, text))
    IN [k \in DOMAIN hit |-> KwLower(hit[k])]

\* keyword_set
KeywordSet == {KwLower(Lexicon[k]) : k \in DOMAIN Lexicon}

CaseResult(text, expected, found, missing_keywords, false_positives) ==
    [text |-> text, expected |-> expected, found |-> found,
     missing_keywords |-> missing_keywords, false_positives |-> false_positives]

\* lines 64-76: the fourth field of the result is `absent`
PositiveResult(c) ==
    LET text == NormDashes(c.text)
        expect == KwLower(c.expect)
        found == Range(FoundIn(text))
        absent == {expect} \ KeywordSet
        extras == found \ {expect}
    IN CaseResult(text, {expect}, found, absent, extras)

\* lines 80-85
NegativeResult(c) ==
    LET text == NormDashes(c.text)
        found == Range(FoundIn(text))
    IN CaseResult(text, {}, found, {}, found)

\* the cases: a text, and for a positive case one expected keyword
CaseTexts ==
    {<<"A", "I">>, <<"M", "A", "I">>, <<"G", "P", "T", "endash", "K", "I">>, <<"m">>}
KwFoo == <<"f", "o", "o">>
Expectations == {KwAI, KwGpt, KwFoo}
PositiveCases == {[text |-> t, expect |-> x] : t \in CaseTexts, x \in Expectations}
NegativeCases == {[text |-> t] : t \in CaseTexts}
CaseFiles ==
    {[positives |-> p, negatives |-> n] :
        p \in UNION {[1..k -> PositiveCases] : k \in 0..MaxCases},
        n \in UNION {[1..k -> NegativeCases] : k \in 0..MaxCases}}

InitTests ==
    /\ cases \in CaseFiles
    /\ pos = <<>>
    /\ neg = <<>>
    /\ exitCode = -1
    /\ testPc = "positives"

TestsQuiet ==
    /\ cases = [positives |-> <<>>, negatives |-> <<>>]
    /\ pos = <<>>
    /\ neg = <<>>
    /\ exitCode = 0
    /\ testPc = "exited"

RunPositive ==
    /\ testPc = "positives"
    /\ Len(pos) < Len(cases.positives)
    /\ pos' = Append(pos, PositiveResult(cases.positives[Len(pos) + 1]))
    /\ UNCHANGED <<cases, neg, exitCode, testPc>>

PositivesDone ==
    /\ testPc = "positives"
    /\ Len(pos) = Len(cases.positives)
    /\ testPc' = "negatives"
    /\ UNCHANGED <<cases, pos, neg, exitCode>>

RunNegative ==
    /\ testPc = "negatives"
    /\ Len(neg) < Len(cases.negatives)
    /\ neg' = Append(neg, NegativeResult(cases.negatives[Len(neg) + 1]))
    /\ UNCHANGED <<cases, pos, exitCode, testPc>>

NegativesDone ==
    /\ testPc = "negatives"
    /\ Len(neg) = Len(cases.negatives)
    /\ testPc' = "summary"
    /\ UNCHANGED <<cases, pos, neg, exitCode>>

any_neg_fail == \E k \in DOMAIN neg : neg[k].false_positives # {}
any_pos_missing == \E k \in DOMAIN pos : pos[k].missing_keywords # {}

ExitFail ==
    /\ testPc = "summary"
    /\ any_neg_fail \/ any_pos_missing
    /\ exitCode' = 1
    /\ testPc' = "exited"
    /\ UNCHANGED <<cases, pos, neg>>

ExitPass ==
    /\ testPc = "summary"
    /\ ~(any_neg_fail \/ any_pos_missing)
    /\ exitCode' = 0
    /\ testPc' = "exited"
    /\ UNCHANGED <<cases, pos, neg>>

nonTestsVars == <<batchVars, intVars, labelVars, parseVars, gptVars, reviewVars, scanVars, lookupVars, finalVars, occVars, naicsVars, inputVars, sampleVars, targetsVars>>

NextTests ==
    \/ RunPositive /\ UNCHANGED nonTestsVars
    \/ PositivesDone /\ UNCHANGED nonTestsVars
    \/ RunNegative /\ UNCHANGED nonTestsVars
    \/ NegativesDone /\ UNCHANGED nonTestsVars
    \/ ExitFail /\ UNCHANGED nonTestsVars
    \/ ExitPass /\ UNCHANGED nonTestsVars

(***************************************************************************)
(* C22                                                                     *)
(***************************************************************************)
\* some pattern of the lexicon finds something in the case text
NegativeMatched(c) == \E k \in DOMAIN Lexicon : Searches(Lexicon[k], NormDashes(c.text))
\* no pattern whose keyword is the expected one finds it in the case text
PositiveMissed(c) ==
    ~\E k \in DOMAIN Lexicon :
        /\ KwLower(Lexicon[k]) = KwLower(c.expect)
        /\ Searches(Lexicon[k], NormDashes(c.text))

\* C22: the runner returns 1 if and only if some negative case produced a
\* keyword match or some positive case missed an expected keyword, and 0
\* otherwise.
C22_ExitCodeReflectsFailures ==
    testPc = "exited" =>
        /\ exitCode \in {0, 1}
        /\ exitCode = 1 <=>
            \/ \E k \in DOMAIN cases.negatives : NegativeMatched(cases.negatives[k])
            \/ \E k \in DOMAIN cases.positives : PositiveMissed(cases.positives[k])

(***************************************************************************)
(* The poll loop of `wait` on its own, with the loop scheduled fairly      *)
(***************************************************************************)
\* after some submits: batches 1..k exist in any status, the manifest is
\* absent or names the last batch
InitWait ==
    /\ script \in Scripts
    /\ jsonl = TRUE
    /\ \E k \in BatchIds :
        /\ nextBatch = k + 1
        /\ nextFile = k + 1
        /\ batchStatus \in [BatchIds -> Statuses \cup {"none"}]
        /\ \A b \in BatchIds : (batchStatus[b] = "none") <=> (b > k)
        /\ manifest \in {NoManifest, ManifestInfo(k, k, "validating")}
    /\ outputReady = [b \in BatchIds |-> FALSE]
    /\ resultsFile = 0
    /\ mode = "none"
    /\ argBatchId = 0
    /\ pc = "idle"
    /\ bid = 0
    /\ out_id = FALSE
    /\ attempts = 0
    /\ nLines = 0
    /\ parsed = 0
    /\ queried = {}
    /\ sawCompleted = FALSE
    /\ requeried = FALSE
    /\ termSeen = ""
    /\ fetchSeen = ""
    /\ downloaded = FALSE
    /\ wroteResults = FALSE
    /\ abortMsg = NoAbort
    /\ manifestAtStart = manifest
    /\ resultsAtStart = 0

NextWait ==
    \/ \E a \in 0..MaxBatches : StartRun("wait", a) /\ UNCHANGED nonBatchVars
    \/ RetrieveRaises /\ UNCHANGED nonBatchVars
    \/ WaitPoll /\ UNCHANGED nonBatchVars
    \/ \E b \in BatchIds : \E s \in Statuses :
            BatchAdvance(b, s) /\ UNCHANGED nonBatchVars

\* time.sleep(args.poll) returns and the loop queries again
WaitFairness == WF_vars(WaitPoll /\ UNCHANGED nonBatchVars)

(***************************************************************************)
(* C23                                                                     *)
(***************************************************************************)
InWaitLoop == mode = "wait" /\ pc = "wait_loop"
TerminalStatuses == {"completed"} \cup FailStatuses

\* the loop is left to fetch on completed and by SystemExit on failed,
\* expired or canceled
LeftByStatus ==
    \/ batchStatus[bid] = "completed" /\ pc' = "fetch_retrieve"
    \/ /\ batchStatus[bid] \in FailStatuses
       /\ pc' = "aborted"
       /\ abortMsg' = [msg |-> "Batch ended with status=", status |-> batchStatus[bid]]
\* the status query itself raises
LeftByApiError ==
    /\ batchStatus[bid] \notin Statuses
    /\ pc' = "aborted"
    /\ abortMsg'.msg = "api error"

\* once the batch has a terminal status the loop is left
WaitLoopExits == (InWaitLoop /\ batchStatus[bid] \in TerminalStatuses) ~> ~InWaitLoop

\* C23 (as stated): when the batch status becomes completed, failed, expired
\* or canceled the wait loop eventually exits, to fetch or to abort; on any
\* other status it polls again, and it is left only through one of those
\* four statuses.
C23_OnlyTerminalStatusExits ==
    /\ WaitLoopExits
    /\ [][(InWaitLoop /\ pc' # "wait_loop") => LeftByStatus]_vars

\* C23 (amended): the same, except that the loop is also left when the
\* status query raises: the error ends the run.
C23_WaitLoopExits ==
    /\ WaitLoopExits
    /\ [][(InWaitLoop /\ pc' # "wait_loop") => (LeftByStatus \/ LeftByApiError)]_vars

\* the loop was left after polling a batch that expired while it was polled
C23_Witness ==
    /\ mode = "wait"
    /\ pc = "aborted"
    /\ termSeen = "expired"
    /\ manifestAtStart.exists
    /\ argBatchId = 0

(***************************************************************************)
(* Batch input builders: validate_ai_mentions_batch.build_jsonl/iter_items *)
(* and validate_ai_requirements_batch.build_input                          *)
(***************************************************************************)
Builders == {"mentions", "matches", "all"}

\* keyword/snippet pairs: a pair, the same pair with surrounding whitespace,
\* a second snippet, a blank keyword
IndexItems ==
    {<<<<"A">>, <<"x">>>>, <<<<"A">>, <<" ", "x">>>>, <<<<"A">>, <<"y">>>>, <<<<" ">>, <<"x">>>>}
IndexEntry(y, ad, it) == [y |-> y, ad |-> ad, keyword |-> it[1], text |-> it[2]]
\* the mentions builder does not read the ad id
IndexEntries == {IndexEntry(y, "a", it) : y \in Years, it \in IndexItems}
\* the requirements builder reads only the years and ad ids of the index
PlainEntries == {IndexEntry(y, ad, <<<<"A">>, <<"x">>>>) : y \in Years, ad \in Ads}

\* a text file is absent or holds lines [ad, txt]; txt may be empty
NoFile == [exists |-> FALSE, lines |-> {}]
TextFile(ls) == [exists |-> TRUE, lines |-> ls]
TextLines == {[ad |-> "a", txt |-> "t"], [ad |-> "b", txt |-> "t"], [ad |-> "a", txt |-> ""]}
TextFiles == {NoFile} \cup {TextFile(ls) : ls \in SUBSET TextLines}
\* the files of the model: the last year's file has no line without text
TextDirs ==
    {d \in [Years -> TextFiles] : \A ln \in d[2].lines : ln.txt # ""}

BuildRanges == YearRanges \cup {<<1, 2>>}
BuildLimits == {NoneV} \cup {IntV(n) : n \in 0..MaxIndex}

\* `limit is not None and n >= limit`
LimitReached(n) == inLimit # NoneV /\ n >= inLimit.v

\* ascending sequence of a set of years / of ad ids (sorted())
RECURSIVE SortedYears(_)
SortedYears(S) ==
    IF S = {} THEN <<>>
    ELSE LET m == CHOOSE x \in S : \A z \in S : x <= z
         IN <<m>> \o SortedYears(S \ {m})
AdOrder(ad) == IF ad = "a" THEN 1 ELSE 2
RECURSIVE SortedAds(_)
SortedAds(S) ==
    IF S = {} THEN <<>>
    ELSE LET m == CHOOSE x \in S : \A z \in S : AdOrder(x) <= AdOrder(z)
         IN <<m>> \o SortedAds(S \ {m})

\* build_input lines 100-131: the years targeted and, for `matches`, the ad
\* ids wanted per year.  For `all` the years are range(start, end + 1) when
\* both are given; otherwise they come from the file names, whose stem
\* "ads_sjmm_<year>.jsonl" does not parse as a year, so none is taken
TargetYears ==
    IF builder = "matches"
      THEN {inMatches[i].y : i \in {j \in 1..Len(inMatches) :
                                        InRange(inMatches[j].y, inRange[1], inRange[2])}}
    ELSE IF inRange[1] # 0 /\ inRange[2] # 0
      THEN {y \in Years : inRange[1] <= y /\ y <= inRange[2] /\ inTexts[y].exists}
    ELSE {}
Wanted(y) == {inMatches[i].ad : i \in {j \in 1..Len(inMatches) : inMatches[j].y = y}}

\* lines 270-288: idx, the ads of one year's file that have text
Idx(y) ==
    {ln.ad : ln \in {l \in inTexts[y].lines :
                        /\ l.txt # ""
                        /\ (builder = "matches" => l.ad \in Wanted(y))}}

\* lines 267-292: the ads visited, by ascending year and ad id
RECURSIVE AdsOfYears(_)
AdsOfYears(ys) ==
    IF ys = <<>> THEN <<>>
    ELSE LET y == Head(ys)
             ads == IF inTexts[y].exists THEN SortedAds(Idx(y)) ELSE <<>>
         IN [j \in 1..Len(ads) |-> [y |-> y, ad |-> ads[j]]] \o AdsOfYears(Tail(ys))

\* the items a builder goes through
\* the keys of the index are distinct: each year and ad id once, in order
KeysOnce(ms) ==
    \A i \in 1..Len(ms) : \A j \in 1..Len(ms) :
        i < j => \/ ms[i].y < ms[j].y
                 \/ ms[i].y = ms[j].y /\ AdOrder(ms[i].ad) < AdOrder(ms[j].ad)

WorkList == IF builder = "mentions" THEN inMatches ELSE AdsOfYears(SortedYears(TargetYears))

\* line 307: custom_id of a requirements request
CustomIdYearAd(w) == <<w.y, "|", w.ad>>
custom_id(w) == IF builder = "matches" THEN <<w.ad>> ELSE CustomIdYearAd(w)

InitInput ==
    /\ builder \in Builders
    /\ inMatches \in IF builder = "mentions"
                       THEN {ms \in SeqsUpTo(IndexEntries, MaxIndex) : YearSorted(ms)}
                     ELSE IF builder = "matches"
                       THEN {ms \in SeqsUpTo(PlainEntries, MaxIndex) : KeysOnce(ms)}
                     ELSE {<<>>}
    /\ inTexts \in IF builder = "mentions" THEN {[y \in Years |-> NoFile]}
                   ELSE TextDirs
    /\ inLimit \in BuildLimits
    /\ inRange \in BuildRanges
    /\ inPos = 0
    /\ inSeen = {}
    /\ inCount = 0
    /\ inLines = <<>>
    /\ inPc = "loop"

InputQuiet ==
    /\ builder = "mentions"
    /\ inMatches = <<>>
    /\ inTexts = [y \in Years |-> NoFile]
    /\ inLimit = NoneV
    /\ inRange = <<0, 0>>
    /\ inPos = 0
    /\ inSeen = {}
    /\ inCount = 0
    /\ inLines = <<>>
    /\ inPc = "loop"

inputInputs == <<builder, inMatches, inTexts, inLimit, inRange>>
InLoopAt == inPc = "loop" /\ inPos < Len(WorkList)
Item == WorkList[inPos + 1]

\* iter_items lines 64-70: an item that is not yielded
MentionSkipped(m) ==
    \/ ~InRange(m.y, inRange[1], inRange[2])
    \/ Strip(m.keyword) = <<>>
    \/ Strip(m.text) = <<>>
    \/ digest(StrippedItem(m)) \in inSeen

\* iter_items: year out of range, blank keyword or snippet, digest seen
MentionSkip ==
    /\ builder = "mentions"
    /\ InLoopAt
    /\ MentionSkipped(Item)
    /\ inPos' = inPos + 1
    /\ UNCHANGED <<inputInputs, inSeen, inCount, inLines, inPc>>

\* iter_items lines 71-75 and build_jsonl: the item is yielded and its line
\* appended, then the count is raised and compared with the limit
MentionYield ==
    /\ builder = "mentions"
    /\ InLoopAt
    /\ ~MentionSkipped(Item)
    /\ inSeen' = inSeen \cup {digest(StrippedItem(Item))}
    /\ inLines' = Append(inLines, digest(StrippedItem(Item)))
    /\ inCount' = inCount + 1
    /\ inPos' = inPos + 1
    /\ inPc' = IF LimitReached(inCount') THEN "done" ELSE "loop"
    /\ UNCHANGED inputInputs

\* build_input lines 293-294: the limit is tested before a line is written
ReqLimitReturn ==
    /\ builder # "mentions"
    /\ InLoopAt
    /\ LimitReached(inCount)
    /\ inPc' = "done"
    /\ UNCHANGED <<inputInputs, inPos, inSeen, inCount, inLines>>

\* build_input lines 295-314: one request line
ReqEmit ==
    /\ builder # "mentions"
    /\ InLoopAt
    /\ ~LimitReached(inCount)
    /\ inLines' = Append(inLines, custom_id(Item))
    /\ inCount' = inCount + 1
    /\ inPos' = inPos + 1
    /\ UNCHANGED <<inputInputs, inSeen, inPc>>

\* the items are exhausted: the file is complete
InputDone ==
    /\ inPc = "loop"
    /\ inPos >= Len(WorkList)
    /\ inPc' = "done"
    /\ UNCHANGED <<inputInputs, inPos, inSeen, inCount, inLines>>

nonInputVars == <<batchVars, intVars, labelVars, parseVars, gptVars, reviewVars, scanVars, lookupVars, finalVars, occVars, naicsVars, testsVars, sampleVars, targetsVars>>

NextInput ==
    \/ MentionSkip /\ UNCHANGED nonInputVars
    \/ MentionYield /\ UNCHANGED nonInputVars
    \/ ReqLimitReturn /\ UNCHANGED nonInputVars
    \/ ReqEmit /\ UNCHANGED nonInputVars
    \/ InputDone /\ UNCHANGED nonInputVars

(***************************************************************************)
(* C25, C26                                                                *)
(***************************************************************************)
\* C25: no two request lines of a built input share a custom_id, for the
\* mentions builder and for the requirements builder with population `all`
\* and `matches`, whatever the match index and the text files hold (the
\* same ad id under more than one year included)
C25_CustomIdsUnique ==
    \A i \in 1..Len(inLines) : \A j \in 1..Len(inLines) :
        i # j => inLines[i] # inLines[j]

\* C26: with --limit N a build writes at most N request lines, for every
\* N >= 0 and both builders; without a limit every item that is not skipped
\* is written
C26_LimitRespected ==
    /\ inLimit # NoneV => Len(inLines) <= inLimit.v
    /\ (inPc = "done" /\ inLimit = NoneV) => inPos = Len(WorkList)

(***************************************************************************)
(* build_final_annotations: allocation, balancing, selection               *)
(***************************************************************************)
SampleLabels == {"True", "Maybe", "False"}
\* the keys of CONF_TARGET, in the order of the dict
CellOrder ==
    <<<<"True", "True">>, <<"True", "Maybe">>, <<"True", "False">>,
      <<"Maybe", "True">>, <<"Maybe", "Maybe">>, <<"Maybe", "False">>,
      <<"False", "True">>, <<"False", "Maybe">>, <<"False", "False">>>>
CellSet == Range(CellOrder)
\* lines 23-33
CONF_TARGET ==
    (<<"True", "True">> :> 91) @@ (<<"True", "Maybe">> :> 5) @@ (<<"True", "False">> :> 1)
    @@ (<<"Maybe", "True">> :> 2) @@ (<<"Maybe", "Maybe">> :> 94) @@ (<<"Maybe", "False">> :> 15)
    @@ (<<"False", "True">> :> 0) @@ (<<"False", "Maybe">> :> 4) @@ (<<"False", "False">> :> 238)
\* line 34
BucketOrder == <<"early", "mid", "late">>
BucketSet == Range(BucketOrder)
BUCKET_TARGETS == ("early" :> 90) @@ ("mid" :> 135) @@ ("late" :> 225)
BucketSum == BUCKET_TARGETS["early"] + BUCKET_TARGETS["mid"] + BUCKET_TARGETS["late"]
\* range(5000), line 155
BalanceRounds == 5000

PoolKeys == CellSet \X BucketSet
min(x, y) == IF x < y THEN x ELSE y
max(x, y) == IF x > y THEN x ELSE y

\* lines 113-121: the proportional shares of cell c, bucket by bucket
RECURSIVE Shares(_, _, _, _)
Shares(c, i, remaining, acc) ==
    IF i > Len(BucketOrder) THEN [a |-> acc, remaining |-> remaining]
    ELSE LET b == BucketOrder[i]
             avail_count == pools[<<c, b>>]
             prop == (CONF_TARGET[c] * BUCKET_TARGETS[b]) \div BucketSum
             share == IF avail_count = 0 THEN 0
                      ELSE min(min(avail_count, max(0, prop)), remaining)
         IN Shares(c, i + 1, remaining - share, [acc EXCEPT ![b] = @ + share])

\* lines 123-130: the remainder goes where candidates are left
RECURSIVE Greedy(_, _, _, _)
Greedy(c, i, remaining, acc) ==
    IF i > Len(BucketOrder) \/ remaining = 0 THEN [a |-> acc, remaining |-> remaining]
    ELSE LET b == BucketOrder[i]
             avail_count == pools[<<c, b>>] - acc[b]
             take == min(remaining, max(0, avail_count))
         IN Greedy(c, i + 1, remaining - take, [acc EXCEPT ![b] = @ + take])

\* lines 111-130 for one cell
AllocOf(c) ==
    LET first == Shares(c, 1, CONF_TARGET[c], [b \in BucketSet |-> 0])
    IN Greedy(c, 1, first.remaining, first.a)
WithCell(al, c, a) ==
    [k \in PoolKeys |-> IF k[1] = c THEN al[k] + a[k[2]] ELSE al[k]]

\* lines 135-139
RECURSIVE BucketTotal(_, _, _)
BucketTotal(al, b, i) ==
    IF i > Len(CellOrder) THEN 0 ELSE al[<<CellOrder[i], b>>] + BucketTotal(al, b, i + 1)
bucket_totals(al) == [b \in BucketSet |-> BucketTotal(al, b, 1)]
\* line 157
deficits(bt) == [b \in BucketSet |-> BUCKET_TARGETS[b] - bt[b]]
Balanced == \A b \in BucketSet : BucketTotal(alloc, b, 1) = BUCKET_TARGETS[b]

\* a move that disregards what the target pool holds
MoveAllowedAnywhere(c, b_from, b_to) == alloc[<<c, b_from>>] > 0
\* try_move, lines 142-149: the move is made
MoveAllowed(c, b_from, b_to) ==
    /\ alloc[<<c, b_from>>] > 0
    /\ alloc[<<c, b_to>>] < pools[<<c, b_to>>]

\* lines 161-174: surplus bucket, deficit bucket and cell, by position
MoveChoices ==
    LET d == deficits(bucket_totals(alloc))
        surplus == {i \in 1..Len(BucketOrder) : d[BucketOrder[i]] < 0}
        deficit == {i \in 1..Len(BucketOrder) : d[BucketOrder[i]] > 0}
    IN {m \in surplus \X deficit \X (1..Len(CellOrder)) :
            MoveAllowed(CellOrder[m[3]], BucketOrder[m[1]], BucketOrder[m[2]])}
Earlier(m, n) ==
    \/ m[1] < n[1]
    \/ m[1] = n[1] /\ m[2] < n[2]
    \/ m[1] = n[1] /\ m[2] = n[2] /\ m[3] <= n[3]
FirstOf(ms) == CHOOSE m \in ms : \A n \in ms : Earlier(m, n)

\* ---- the candidate pools of the model ----
PoolShapes == {"ample", "late", "notlate", "short"}
PoolSize(shape, total, spare, b) ==
    CASE shape = "ample" -> total + spare
      [] shape = "late" -> IF b = "late" THEN total + spare ELSE 0
      [] shape = "notlate" -> IF b = "late" THEN 0 ELSE total + spare
      [] shape = "short" -> IF b = "late" /\ total > 0 THEN total - 1 ELSE 0
BigCells == {<<"True", "True">>, <<"Maybe", "Maybe">>, <<"False", "False">>}
\* a shape for each of the three large cells, one for the small cells
PoolsOf(shapes, small, spare) ==
    [k \in PoolKeys |->
        PoolSize(IF k[1] \in BigCells THEN shapes[k[1]] ELSE small,
                 CONF_TARGET[k[1]], spare, k[2])]
PoolInputs ==
    {PoolsOf(sh, sm, sp) : sh \in [BigCells -> PoolShapes], sm \in PoolShapes, sp \in 0..MaxSpare}

NoAlloc == [k \in PoolKeys |-> 0]

InitSample ==
    /\ pools \in PoolInputs
    /\ alloc = NoAlloc
    /\ allocNext = 1
    /\ balIter = 0
    /\ samplePc = "alloc"
    /\ selected = {}

SampleQuiet ==
    /\ pools = NoAlloc
    /\ alloc = NoAlloc
    /\ allocNext = 1
    /\ balIter = 0
    /\ samplePc = "alloc"
    /\ selected = {}

\* lines 111-130: the allocation of the next cell of CONF_TARGET
AllocCell ==
    /\ samplePc = "alloc"
    /\ LET c == CellOrder[allocNext]
           r == AllocOf(c)
       IN /\ r.remaining = 0
          /\ alloc' = WithCell(alloc, c, r.a)
    /\ allocNext' = allocNext + 1
    /\ samplePc' = IF allocNext = Len(CellOrder) THEN "balance" ELSE "alloc"
    /\ UNCHANGED <<pools, balIter, selected>>

\* lines 131-132: "Not enough candidates"
AllocRaises ==
    /\ samplePc = "alloc"
    /\ LET c == CellOrder[allocNext]
           r == AllocOf(c)
       IN /\ r.remaining > 0
          /\ alloc' = WithCell(alloc, c, r.a)
    /\ samplePc' = "aborted"
    /\ UNCHANGED <<pools, allocNext, balIter, selected>>

\* one round of the balancing loop that moves a unit, lines 155-174
BalanceMove ==
    /\ samplePc = "balance"
    /\ balIter < BalanceRounds
    /\ ~Balanced
    /\ LET ms == MoveChoices
       IN /\ ms # {}
          /\ LET m == FirstOf(ms)
                 c == CellOrder[m[3]]
                 b_from == BucketOrder[m[1]]
                 b_to == BucketOrder[m[2]]
             IN alloc' = [alloc EXCEPT ![<<c, b_from>>] = @ - 1, ![<<c, b_to>>] = @ + 1]
    /\ balIter' = balIter + 1
    /\ UNCHANGED <<pools, allocNext, samplePc, selected>>

\* the loop ends: balanced, nothing to move, or the rounds used up
BalanceEnds ==
    /\ samplePc = "balance"
    /\ balIter = BalanceRounds \/ Balanced \/ MoveChoices = {}
    /\ samplePc' = "validate"
    /\ UNCHANGED <<pools, alloc, allocNext, balIter, selected>>

\* lines 179-181: "Could not satisfy bucket targets"
ValidateRaises ==
    /\ samplePc = "validate"
    /\ ~Balanced
    /\ samplePc' = "aborted"
    /\ UNCHANGED <<pools, alloc, allocNext, balIter, selected>>

\* random.shuffle(pool); pool[:v]: the ads of a pool are numbered, the
\* shuffle leaves them in order or reverses them
Shuffles == {"kept", "reversed"}
Taken(k, v, sh) ==
    {[truth |-> k[1][1], pred |-> k[1][2], bucket |-> k[2], n |-> n] :
        n \in IF sh = "kept" THEN 1..v ELSE (pools[k] - v + 1)..pools[k]}

\* lines 184-207: the selection is made and written
WriteSample ==
    /\ samplePc = "validate"
    /\ Balanced
    /\ \E sh \in Shuffles :
           selected' = UNION {Taken(k, alloc[k], sh) : k \in {x \in PoolKeys : alloc[x] > 0}}
    /\ samplePc' = "written"
    /\ UNCHANGED <<pools, alloc, allocNext, balIter>>

nonSampleVars == <<batchVars, intVars, labelVars, parseVars, gptVars, reviewVars, scanVars, lookupVars, finalVars, occVars, naicsVars, testsVars, inputVars, targetsVars>>

NextSample ==
    \/ AllocCell /\ UNCHANGED nonSampleVars
    \/ AllocRaises /\ UNCHANGED nonSampleVars
    \/ BalanceMove /\ UNCHANGED nonSampleVars
    \/ BalanceEnds /\ UNCHANGED nonSampleVars
    \/ ValidateRaises /\ UNCHANGED nonSampleVars
    \/ WriteSample /\ UNCHANGED nonSampleVars

\* the balancing loop runs on: a round that can be taken is taken
SampleFairness ==
    /\ WF_vars(BalanceMove /\ UNCHANGED nonSampleVars)
    /\ WF_vars(BalanceEnds /\ UNCHANGED nonSampleVars)

(***************************************************************************)
(* C28                                                                     *)
(***************************************************************************)
CellSum(c) == alloc[<<c, "early">>] + alloc[<<c, "mid">>] + alloc[<<c, "late">>]
\* every allocated cell sums to its confusion total
CellsKeepTotals == \A i \in 1..(allocNext - 1) : CellSum(CellOrder[i]) = CONF_TARGET[CellOrder[i]]
AllocWithinPools == \A k \in PoolKeys : 0 <= alloc[k] /\ alloc[k] <= pools[k]
WrittenOnlyOnTarget ==
    /\ samplePc # "written" => selected = {}
    /\ samplePc = "written" =>
           /\ bucket_totals(alloc) = BUCKET_TARGETS
           /\ Cardinality(selected) = 450
BalancingEnds == (samplePc = "balance") ~> (samplePc # "balance")

\* C28: through the initial allocation and every balancing move the
\* allocations of each allocated cell sum over the three buckets to its
\* CONF_TARGET and each allocation stays between 0 and the size of its pool;
\* the output is written only when the bucket totals equal BUCKET_TARGETS,
\* and then holds 450 distinct ads, otherwise the run aborts without
\* writing; the balancing loop ends within its 5000 rounds
C28_AllocationSound ==
    /\ [](CellsKeepTotals /\ AllocWithinPools /\ WrittenOnlyOnTarget /\ balIter <= BalanceRounds)
    /\ BalancingEnds

\* a run that balanced the buckets by moves and wrote the sample
C28_Witness ==
    /\ samplePc = "written"
    /\ balIter > 0
    /\ Cardinality(selected) = 450
    /\ \E k \in PoolKeys : alloc[k] = pools[k] /\ alloc[k] > 0

(***************************************************************************)
(* build_final_annotations2: main                                          *)
(***************************************************************************)
\* TARGETS, lines 45-73, in the order of the dict: truth, pred, bucket, need
TARGETS ==
    <<<<"True", "True", "early", 18>>, <<"True", "True", "mid", 27>>, <<"True", "True", "late", 48>>,
      <<"True", "Maybe", "early", 1>>, <<"True", "Maybe", "mid", 1>>, <<"True", "Maybe", "late", 3>>,
      <<"True", "False", "early", 1>>, <<"True", "False", "mid", 0>>, <<"True", "False", "late", 0>>,
      <<"Maybe", "True", "early", 0>>, <<"Maybe", "True", "mid", 1>>, <<"Maybe", "True", "late", 2>>,
      <<"Maybe", "Maybe", "early", 19>>, <<"Maybe", "Maybe", "mid", 28>>, <<"Maybe", "Maybe", "late", 47>>,
      <<"Maybe", "False", "early", 14>>, <<"Maybe", "False", "mid", 1>>, <<"Maybe", "False", "late", 0>>,
      <<"False", "True", "early", 0>>, <<"False", "True", "mid", 0>>, <<"False", "True", "late", 3>>,
      <<"False", "Maybe", "early", 1>>, <<"False", "Maybe", "mid", 0>>, <<"False", "Maybe", "late", 0>>,
      <<"False", "False", "early", 36>>, <<"False", "False", "mid", 77>>, <<"False", "False", "late", 121>>>>

\* sum(TARGETS.values())
RECURSIVE SumNeeds(_)
SumNeeds(i) == IF i > Len(TARGETS) THEN 0 ELSE TARGETS[i][4] + SumNeeds(i + 1)

\* the candidate pools of the model: every pool holds what its key needs
\* and up to MaxSpare more, but for one key, which may be one short
PoolSizes(short, spare) ==
    [i \in 1..Len(TARGETS) |->
        IF i = short /\ TARGETS[i][4] > 0 THEN TARGETS[i][4] - 1 ELSE TARGETS[i][4] + spare]
Pool2Inputs == {PoolSizes(sh, sp) : sh \in 0..Len(TARGETS), sp \in 0..MaxSpare}

InitTargets ==
    /\ pools2 \in Pool2Inputs
    /\ shuffle2 \in Shuffles
    /\ keyPos = 0
    /\ selected2 = {}
    /\ out2 = {}
    /\ pc2 = "select"

TargetsQuiet ==
    /\ pools2 = PoolSizes(0, 0)
    /\ shuffle2 = "kept"
    /\ keyPos = 0
    /\ selected2 = {}
    /\ out2 = {}
    /\ pc2 = "select"

\* random.shuffle(pool); pool[:need]: the ads of a pool are numbered, the
\* seeded shuffle of the run leaves them in order or reverses them
Take(i, sh) ==
    {[truth |-> TARGETS[i][1], pred |-> TARGETS[i][2], bucket |-> TARGETS[i][3], n |-> n] :
        n \in IF sh = "kept" THEN 1..TARGETS[i][4]
              ELSE (pools2[i] - TARGETS[i][4] + 1)..pools2[i]}

\* lines 103-112 for the next key of TARGETS
SelectKey ==
    /\ pc2 = "select"
    /\ keyPos < Len(TARGETS)
    /\ pools2[keyPos + 1] >= TARGETS[keyPos + 1][4]
    /\ selected2' = selected2 \cup Take(keyPos + 1, shuffle2)
    /\ keyPos' = keyPos + 1
    /\ UNCHANGED <<pools2, shuffle2, out2, pc2>>

\* lines 105-106: "Not enough candidates"
SelectRaises ==
    /\ pc2 = "select"
    /\ keyPos < Len(TARGETS)
    /\ pools2[keyPos + 1] < TARGETS[keyPos + 1][4]
    /\ pc2' = "aborted"
    /\ UNCHANGED <<pools2, shuffle2, keyPos, selected2, out2>>

\* lines 114-122: the count is compared with sum(TARGETS.values()) and the
\* file is written
WriteOut2 ==
    /\ pc2 = "select"
    /\ keyPos = Len(TARGETS)
    /\ IF Cardinality(selected2) # SumNeeds(1)
         THEN pc2' = "aborted" /\ out2' = out2
         ELSE pc2' = "written" /\ out2' = selected2
    /\ UNCHANGED <<pools2, shuffle2, keyPos, selected2>>

nonTargetsVars == <<batchVars, intVars, labelVars, parseVars, gptVars, reviewVars, scanVars, lookupVars, finalVars, occVars, naicsVars, testsVars, inputVars, sampleVars>>

NextTargets ==
    \/ SelectKey /\ UNCHANGED nonTargetsVars
    \/ SelectRaises /\ UNCHANGED nonTargetsVars
    \/ WriteOut2 /\ UNCHANGED nonTargetsVars

(***************************************************************************)
(* C30                                                                     *)
(***************************************************************************)
InBucket(b) == {a \in out2 : a.bucket = b}
WithPred(p) == {a \in out2 : a.pred = p}
InCell(i) ==
    {a \in out2 : a.truth = TARGETS[i][1] /\ a.pred = TARGETS[i][2] /\ a.bucket = TARGETS[i][3]}

\* C30: a completed run writes 450 distinct ads, 90 early, 135 mid and 225
\* late, 100 predicted True, 100 Maybe and 250 False: the TARGETS sum to
\* these totals, and the file holds sum(TARGETS) ads with the target count
\* in every (truth, prediction, bucket) cell
C30_TargetsGive450 ==
    pc2 = "written" =>
        /\ SumNeeds(1) = 450
        /\ Cardinality(out2) = SumNeeds(1)
        /\ \A i \in 1..Len(TARGETS) : Cardinality(InCell(i)) = TARGETS[i][4]
        /\ Cardinality(InBucket("early")) = 90
        /\ Cardinality(InBucket("mid")) = 135
        /\ Cardinality(InBucket("late")) = 225
        /\ Cardinality(WithPred("True")) = 100
        /\ Cardinality(WithPred("Maybe")) = 100
        /\ Cardinality(WithPred("False")) = 250

(***************************************************************************)
(* Specifications                                                          *)
(***************************************************************************)
InitSpecBatch == InitBatch /\ IntegrateQuiet /\ LabelQuiet /\ ParseQuiet /\ GptQuiet /\ ReviewQuiet /\ ScanQuiet /\ LookupQuiet /\ FinalQuiet /\ OccQuiet /\ NaicsQuiet /\ TestsQuiet /\ InputQuiet /\ SampleQuiet /\ TargetsQuiet
SpecBatch == InitSpecBatch /\ [][NextBatch]_vars

InitSpecIntegrate == InitIntegrate /\ BatchQuiet /\ LabelQuiet /\ ParseQuiet /\ GptQuiet /\ ReviewQuiet /\ ScanQuiet /\ LookupQuiet /\ FinalQuiet /\ OccQuiet /\ NaicsQuiet /\ TestsQuiet /\ InputQuiet /\ SampleQuiet /\ TargetsQuiet
SpecIntegrate == InitSpecIntegrate /\ [][NextIntegrate]_vars

InitSpecLabel == InitLabel /\ BatchQuiet /\ IntegrateQuiet /\ ParseQuiet /\ GptQuiet /\ ReviewQuiet /\ ScanQuiet /\ LookupQuiet /\ FinalQuiet /\ OccQuiet /\ NaicsQuiet /\ TestsQuiet /\ InputQuiet /\ SampleQuiet /\ TargetsQuiet
SpecLabel == InitSpecLabel /\ [][NextLabel]_vars

InitSpecParse == InitParse /\ BatchQuiet /\ IntegrateQuiet /\ LabelQuiet /\ GptQuiet /\ ReviewQuiet /\ ScanQuiet /\ LookupQuiet /\ FinalQuiet /\ OccQuiet /\ NaicsQuiet /\ TestsQuiet /\ InputQuiet /\ SampleQuiet /\ TargetsQuiet
SpecParse == InitSpecParse /\ [][NextParse]_vars

InitSpecGpt == InitGpt /\ BatchQuiet /\ IntegrateQuiet /\ LabelQuiet /\ ParseQuiet /\ ReviewQuiet /\ ScanQuiet /\ LookupQuiet /\ FinalQuiet /\ OccQuiet /\ NaicsQuiet /\ TestsQuiet /\ InputQuiet /\ SampleQuiet /\ TargetsQuiet
SpecGpt == InitSpecGpt /\ [][NextGpt]_vars

InitSpecReview == InitReview /\ IntegrateQuiet /\ LabelQuiet /\ ParseQuiet /\ GptQuiet /\ BatchQuiet /\ ScanQuiet /\ LookupQuiet /\ FinalQuiet /\ OccQuiet /\ NaicsQuiet /\ TestsQuiet /\ InputQuiet /\ SampleQuiet /\ TargetsQuiet
SpecReview == InitSpecReview /\ [][NextReview]_vars

InitSpecScan == InitScan /\ IntegrateQuiet /\ LabelQuiet /\ ParseQuiet /\ GptQuiet /\ ReviewQuiet /\ BatchQuiet /\ LookupQuiet /\ FinalQuiet /\ OccQuiet /\ NaicsQuiet /\ TestsQuiet /\ InputQuiet /\ SampleQuiet /\ TargetsQuiet
SpecScan == InitSpecScan /\ [][NextScan]_vars

InitSpecLookup == InitLookup /\ IntegrateQuiet /\ LabelQuiet /\ ParseQuiet /\ GptQuiet /\ ReviewQuiet /\ ScanQuiet /\ BatchQuiet /\ FinalQuiet /\ OccQuiet /\ NaicsQuiet /\ TestsQuiet /\ InputQuiet /\ SampleQuiet /\ TargetsQuiet
SpecLookup == InitSpecLookup /\ [][NextLookup]_vars

InitSpecFinal == InitFinal /\ IntegrateQuiet /\ LabelQuiet /\ ParseQuiet /\ GptQuiet /\ ReviewQuiet /\ ScanQuiet /\ LookupQuiet /\ BatchQuiet /\ OccQuiet /\ NaicsQuiet /\ TestsQuiet /\ InputQuiet /\ SampleQuiet /\ TargetsQuiet
SpecFinal == InitSpecFinal /\ [][NextFinal]_vars

InitSpecOcc == InitOcc /\ IntegrateQuiet /\ LabelQuiet /\ ParseQuiet /\ GptQuiet /\ ReviewQuiet /\ ScanQuiet /\ LookupQuiet /\ FinalQuiet /\ BatchQuiet /\ NaicsQuiet /\ TestsQuiet /\ InputQuiet /\ SampleQuiet /\ TargetsQuiet
SpecOcc == InitSpecOcc /\ [][NextOcc]_vars

InitSpecNaics == InitNaics /\ IntegrateQuiet /\ LabelQuiet /\ ParseQuiet /\ GptQuiet /\ ReviewQuiet /\ ScanQuiet /\ LookupQuiet /\ FinalQuiet /\ OccQuiet /\ BatchQuiet /\ TestsQuiet /\ InputQuiet /\ SampleQuiet /\ TargetsQuiet
SpecNaics == InitSpecNaics /\ [][NextNaics]_vars

InitSpecTests == InitTests /\ IntegrateQuiet /\ LabelQuiet /\ ParseQuiet /\ GptQuiet /\ ReviewQuiet /\ ScanQuiet /\ LookupQuiet /\ FinalQuiet /\ OccQuiet /\ NaicsQuiet /\ BatchQuiet /\ InputQuiet /\ SampleQuiet /\ TargetsQuiet
SpecTests == InitSpecTests /\ [][NextTests]_vars

InitSpecWait == InitWait /\ IntegrateQuiet /\ LabelQuiet /\ ParseQuiet /\ GptQuiet /\ ReviewQuiet /\ ScanQuiet /\ LookupQuiet /\ FinalQuiet /\ OccQuiet /\ NaicsQuiet /\ TestsQuiet /\ InputQuiet /\ SampleQuiet /\ TargetsQuiet
SpecWait == InitSpecWait /\ [][NextWait]_vars /\ WaitFairness

InitSpecInput == InitInput /\ IntegrateQuiet /\ LabelQuiet /\ ParseQuiet /\ GptQuiet /\ ReviewQuiet /\ ScanQuiet /\ LookupQuiet /\ FinalQuiet /\ OccQuiet /\ NaicsQuiet /\ TestsQuiet /\ BatchQuiet /\ SampleQuiet /\ TargetsQuiet
SpecInput == InitSpecInput /\ [][NextInput]_vars

InitSpecSample == InitSample /\ IntegrateQuiet /\ LabelQuiet /\ ParseQuiet /\ GptQuiet /\ ReviewQuiet /\ ScanQuiet /\ LookupQuiet /\ FinalQuiet /\ OccQuiet /\ NaicsQuiet /\ TestsQuiet /\ InputQuiet /\ BatchQuiet /\ TargetsQuiet
SpecSample == InitSpecSample /\ [][NextSample]_vars /\ SampleFairness

InitSpecTargets == InitTargets /\ IntegrateQuiet /\ LabelQuiet /\ ParseQuiet /\ GptQuiet /\ ReviewQuiet /\ ScanQuiet /\ LookupQuiet /\ FinalQuiet /\ OccQuiet /\ NaicsQuiet /\ TestsQuiet /\ InputQuiet /\ SampleQuiet /\ BatchQuiet
SpecTargets == InitSpecTargets /\ [][NextTargets]_vars

====
